---- MODULE Spec2Model ----
(***************************************************************************)
(* A model of SQLiteCache (src/src/sqlite-cache.ts, lines 1-694): the      *)
(* single-flight openDB, the creation pass, the internal-format migration  *)
(* steps, and the record / relationship-edge operations over the physical  *)
(* SQLite store.  The store is modelled as its tables; every db.transaction *)
(* is a list of statements that commits as a whole or rolls back.          *)
(***************************************************************************)
EXTENDS Integers, Sequences, FiniteSets, TLC

\* ------------------------------------------------------------------ bounds
NCallers == 3           \* concurrent callers of openDB
MaxRestarts == 1        \* times the store is opened again: by a new cache or by reopenDB
MaxTargets == 2         \* largest has-many target list written by setRecordAsync
MaxConns == 3           \* connections opened in a run of calls made one after the other

\* ------------------------------------------------------- program constants
VERSION == 2

\* --------------------------------------------------------------- the schema
\* The models of the tests' schema; solarSystem declares attributes only, as
\* the models of the upgraded schema of tests/tests/source/index.ts do, and
\* planet has the two relationships to its own type of
\* tests/tests/cache/index.ts, 1094-1157.
Models == {"planet", "moon", "solarSystem"}

SchemaRelationships ==
  { [model |-> "planet",      name |-> "moons",       type |-> "hasMany", target |-> "moon"],
    [model |-> "planet",      name |-> "solarSystem", type |-> "hasOne",  target |-> "solarSystem"],
    [model |-> "moon",        name |-> "planet",      type |-> "hasOne",  target |-> "planet"],
    [model |-> "planet",      name |-> "previous",    type |-> "hasOne",  target |-> "planet"],
    [model |-> "planet",      name |-> "next",        type |-> "hasOne",  target |-> "planet"] }

RelationshipsOf(type) == { d \in SchemaRelationships : d.model = type }

\* ------------------------------------------------------------ value shapes
\* A field of a record that is not there (undefined).
Absent == [k |-> "absent"]

\* A map (attributes or keys) is a set of <<name, value>> pairs.
Some(m) == [k |-> "map", v |-> m]

\* SQL column values: NULL, or a text.
NULL == [k |-> "null"]

Identity(type, id) == [type |-> type, id |-> id]

\* relationships[name].data : null, one identity, or a list of identities.
DataNull == [shape |-> "null", ids |-> {}]

DataOne(i) == [shape |-> "one", ids |-> {i}]

DataMany(S) == [shape |-> "many", ids |-> S]

\* The column value of an attribute that a version-0 row does not carry.
NullColumn == "<NULL>"

\* ------------------------------------------------------------ the codec
\* JSON.stringify of a map: a text; it is not the map.
JSONstringify(m) == [k |-> "json", v |-> m]

\* JSON.parse inside try/catch over an initial {}: NULL parses to null,
\* a text that is no JSON throws and leaves {}.
JSONparse(col) ==
  IF col.k = "json" THEN [k |-> "value", v |-> col.v]
  ELSE IF col.k = "null" THEN [k |-> "jsnull", v |-> {}]
  ELSE [k |-> "value", v |-> {}]

stripNullFields(cols) == { p \in cols : p[2] # NullColumn }

\* ------------------------------------------------------ the physical store
NoTable == [exists |-> FALSE, rows |-> <<>>]

EmptyStore ==
  [ versionTable  |-> NoTable,
    internalTable |-> NoTable,
    modelTables   |-> [m \in Models |-> "none"],
    rows          |-> {},
    legacyTables  |-> {},
    legacyRels    |-> {},
    relTable      |-> FALSE,
    edges         |-> {} ]

Edge(sid, st, name, tid, tt) ==
  [source_id |-> sid, source_table |-> st, relation_name |-> name,
   target_id |-> tid, target_table |-> tt]

\* One SQL statement against the store: [ok, s].  A statement on a missing
\* table, a CREATE of an existing table, and an INSERT that repeats a primary
\* key fail.  NULLs in a primary key never collide (SQLite).
Exec(s, q) ==
  CASE q.op = "CreateVersion" ->
         IF s.versionTable.exists THEN [ok |-> FALSE, s |-> s]
         ELSE [ok |-> TRUE, s |-> [s EXCEPT !.versionTable = [exists |-> TRUE, rows |-> <<>>]]]
    [] q.op = "DeleteVersion" ->
         IF ~s.versionTable.exists THEN [ok |-> FALSE, s |-> s]
         ELSE [ok |-> TRUE, s |-> [s EXCEPT !.versionTable.rows = <<>>]]
    [] q.op = "InsertVersion" ->
         IF ~s.versionTable.exists THEN [ok |-> FALSE, s |-> s]
         ELSE [ok |-> TRUE, s |-> [s EXCEPT !.versionTable.rows = Append(@, q.version)]]
    [] q.op = "CreateInternal" ->
         IF s.internalTable.exists THEN [ok |-> FALSE, s |-> s]
         ELSE [ok |-> TRUE, s |-> [s EXCEPT !.internalTable = [exists |-> TRUE, rows |-> <<>>]]]
    [] q.op = "DeleteInternal" ->
         IF ~s.internalTable.exists THEN [ok |-> FALSE, s |-> s]
         ELSE [ok |-> TRUE, s |-> [s EXCEPT !.internalTable.rows = <<>>]]
    [] q.op = "InsertInternal" ->
         IF ~s.internalTable.exists THEN [ok |-> FALSE, s |-> s]
         ELSE [ok |-> TRUE, s |-> [s EXCEPT !.internalTable.rows = Append(@, q.version)]]
    [] q.op = "CreateRelationships" ->
         IF s.relTable THEN [ok |-> FALSE, s |-> s]
         ELSE [ok |-> TRUE, s |-> [s EXCEPT !.relTable = TRUE, !.edges = {}]]
    [] q.op = "CreateModel" ->
         IF s.modelTables[q.table] # "none" THEN [ok |-> FALSE, s |-> s]
         ELSE [ok |-> TRUE, s |-> [s EXCEPT !.modelTables[q.table] = "blob"]]
    [] q.op = "DropModel" ->
         IF s.modelTables[q.table] = "none" THEN [ok |-> FALSE, s |-> s]
         ELSE [ok |-> TRUE,
               s |-> [s EXCEPT !.modelTables[q.table] = "none",
                               !.rows = { r \in @ : r.table # q.table }]]
    [] q.op = "DropLegacy" ->
         IF q.table \notin s.legacyTables THEN [ok |-> FALSE, s |-> s]
         ELSE [ok |-> TRUE,
               s |-> [s EXCEPT !.legacyTables = @ \ {q.table},
                               !.legacyRels = { r \in @ : r.table # q.table }]]
    [] q.op = "InsertRow" ->
         IF \/ s.modelTables[q.table] # "blob"
            \/ \E r \in s.rows : r.table = q.table /\ r.id = q.id
         THEN [ok |-> FALSE, s |-> s]
         ELSE [ok |-> TRUE,
               s |-> [s EXCEPT !.rows = @ \cup
                        {[table |-> q.table, id |-> q.id,
                          attributes |-> q.attributes, keys |-> q.keys]}]]
    [] q.op = "UpdateRow" ->
         IF s.modelTables[q.table] # "blob" THEN [ok |-> FALSE, s |-> s]
         ELSE [ok |-> TRUE,
               s |-> [s EXCEPT !.rows =
                        { IF r.table = q.table /\ r.id = q.id
                          THEN [r EXCEPT
                                  !.attributes = IF q.setAttributes THEN q.attributes ELSE @,
                                  !.keys = IF q.setKeys THEN q.keys ELSE @]
                          ELSE r : r \in @ }]]
    [] q.op = "DeleteRow" ->
         IF s.modelTables[q.table] = "none" THEN [ok |-> FALSE, s |-> s]
         ELSE [ok |-> TRUE,
               s |-> [s EXCEPT !.rows = { r \in @ : ~(r.table = q.table /\ r.id = q.id) }]]
    [] q.op = "DeleteEdgesOf" ->
         IF ~s.relTable THEN [ok |-> FALSE, s |-> s]
         ELSE [ok |-> TRUE,
               s |-> [s EXCEPT !.edges =
                        { e \in @ : ~(e.source_id = q.id /\ e.source_table = q.table) }]]
    [] q.op = "InsertEdge" ->
         IF ~s.relTable \/ (q.edge.target_id # "null" /\ q.edge \in s.edges)
         THEN [ok |-> FALSE, s |-> s]
         ELSE [ok |-> TRUE, s |-> [s EXCEPT !.edges = @ \cup {q.edge}]]
    [] q.op = "DeleteEdge" ->
         IF ~s.relTable THEN [ok |-> FALSE, s |-> s]
         ELSE [ok |-> TRUE, s |-> [s EXCEPT !.edges = @ \ {q.edge}]]

RECURSIVE ExecAll(_, _)
ExecAll(s, qs) ==
  IF qs = <<>> THEN [ok |-> TRUE, s |-> s]
  ELSE LET r == Exec(s, Head(qs))
       IN  IF r.ok THEN ExecAll(r.s, Tail(qs)) ELSE r

\* db.transaction that keeps what ran before the failing statement.
Transaction_PartialCommit(s, qs, fault) ==
  IF fault # 0 THEN [ok |-> FALSE, s |-> s]
  ELSE LET r == ExecAll(s, qs)
       IN  IF r.ok THEN r ELSE [ok |-> FALSE, s |-> r.s]

\* db.transaction(fn): the statements fn queues run in order; if one fails,
\* or the engine fails at statement `fault` (0: no such failure), everything
\* is rolled back and the promise rejects.
Transaction(s, qs, fault) ==
  IF fault # 0 THEN [ok |-> FALSE, s |-> s]
  ELSE LET r == ExecAll(s, qs)
       IN  IF r.ok THEN r ELSE [ok |-> FALSE, s |-> s]

\* A set as a sequence, in an arbitrary fixed order (statement order inside
\* one loop over rows never matters to the result).
RECURSIVE SetToSeq(_)
SetToSeq(S) ==
  IF S = {} THEN <<>>
  ELSE LET x == CHOOSE y \in S : TRUE IN <<x>> \o SetToSeq(S \ {x})

\* ------------------------------------------------ version rows (283-301)
setVersion(version) ==
  << [op |-> "DeleteVersion"], [op |-> "InsertVersion", version |-> version] >>

\* _setInternalVersion without its DELETE.
_setInternalVersion_NoDelete(version) ==
  << [op |-> "InsertInternal", version |-> version] >>

\* _setInternalVersion (293-301).
_setInternalVersion(version) ==
  << [op |-> "DeleteInternal"], [op |-> "InsertInternal", version |-> version] >>

_createRelationshipTables == << [op |-> "CreateRelationships"] >>

_createModelTable(type) == << [op |-> "CreateModel", table |-> type] >>

RECURSIVE Flatten(_)
Flatten(seqs) == IF seqs = <<>> THEN <<>> ELSE Head(seqs) \o Flatten(Tail(seqs))

ModelSeq == SetToSeq(Models)

\* ------------------------------------------------------ createDB (174-185)
createDBStatements(version) ==
  << [op |-> "CreateVersion"] >> \o setVersion(version)
  \o << [op |-> "CreateInternal"] >> \o _setInternalVersion(VERSION)
  \o _createRelationshipTables
  \o Flatten([i \in 1..Len(ModelSeq) |-> _createModelTable(ModelSeq[i])])

createDB(s, version, fault) == Transaction(s, createDBStatements(version), fault)

\* ---------------------------------------- _migrateDBInternalTo1 (196-227)
\* The SELECT * of every model table, before the transaction.
To1ReadsOk(s) == \A m \in Models : s.modelTables[m] # "none"

\* One version-0 row, translated: the non-null attribute columns as one JSON
\* text, __keys__ carried over as it is.
To1Item(row) ==
  [id |-> row.id,
   attributes |-> JSONstringify(stripNullFields(row.attributes.v)),
   keys |-> row.keys]

To1ModelStatements(s, model) ==
  << [op |-> "DropModel", table |-> model] >> \o _createModelTable(model)
  \o LET items == SetToSeq({ To1Item(r) : r \in { x \in s.rows : x.table = model } })
     IN  [i \in 1..Len(items) |->
            [op |-> "InsertRow", table |-> model, id |-> items[i].id,
             attributes |-> items[i].attributes, keys |-> items[i].keys]]

To1Statements(s) ==
  Flatten([i \in 1..Len(ModelSeq) |-> To1ModelStatements(s, ModelSeq[i])])
  \o << [op |-> "CreateInternal"] >> \o _setInternalVersion(1)

_migrateDBInternalTo1(s, fault) ==
  IF ~To1ReadsOk(s) THEN [ok |-> FALSE, s |-> s]
  ELSE Transaction(s, To1Statements(s), fault)

\* ---------------------------------------- _migrateDBInternalTo2 (229-272)
LegacyTableOf(d) == <<d.model, d.target>>

\* The SELECT * of relationships_<model>_<target> for every declared relationship.
To2ReadsOk(s) == \A d \in SchemaRelationships : LegacyTableOf(d) \in s.legacyTables

relationshipsToInsert(s) ==
  { Edge(r.src, d.model, d.name, r.tgt, d.target) :
      <<d, r>> \in { p \in SchemaRelationships \X s.legacyRels :
                       p[2].table = LegacyTableOf(p[1]) } }

To2Statements(s) ==
  LET drops == SetToSeq(s.legacyTables)
      ins   == SetToSeq(relationshipsToInsert(s))
  IN  [i \in 1..Len(drops) |-> [op |-> "DropLegacy", table |-> drops[i]]]
      \o _createRelationshipTables
      \o [i \in 1..Len(ins) |-> [op |-> "InsertEdge", edge |-> ins[i]]]
      \o _setInternalVersion(2)

\* Step 1->2 with the version bump committed on its own, ahead of the rewrite.
_migrateDBInternalTo2_BumpFirst(s, fault) ==
  IF ~To2ReadsOk(s) THEN [ok |-> FALSE, s |-> s]
  ELSE LET bumped == Transaction(s, _setInternalVersion(2), 0).s
       IN  IF fault # 0 THEN [ok |-> FALSE, s |-> bumped]
           ELSE Transaction(bumped, To2Statements(bumped), 0)

_migrateDBInternalTo2(s, fault) ==
  IF ~To2ReadsOk(s) THEN [ok |-> FALSE, s |-> s]
  ELSE Transaction(s, To2Statements(s), fault)

\* ------------------------------------------------- reading a record back
\* _getRelationshipsForRecord that tells the edges of a record apart by the
\* type of their target, not by relation_name.
_getRelationshipsForRecord_ByTargetType(s, type, id) ==
  LET results == { e \in s.edges : e.source_id = id /\ e.source_table = type }
      DataOf(d) == { Identity(e.target_table, e.target_id) :
                       e \in { x \in results : x.target_table = d.target } }
  IN  { <<d.name,
          IF d.type = "hasMany" THEN DataMany(DataOf(d))
          ELSE LET effectiveData == CHOOSE i \in DataOf(d) : TRUE
               IN  IF effectiveData.id = "null" THEN DataNull ELSE DataOne(effectiveData)>> :
        d \in { x \in RelationshipsOf(type) : DataOf(x) # {} } }

\* _getRelationshipsForRecord (495-530): one entry per declared relationship
\* that has at least one edge, shaped by the declared cardinality.
_getRelationshipsForRecord(s, type, id) ==
  LET results == { e \in s.edges : e.source_id = id /\ e.source_table = type }
      DataOf(d) == { Identity(e.target_table, e.target_id) :
                       e \in { x \in results : x.relation_name = d.name } }
  IN  { <<d.name,
          IF d.type = "hasMany" THEN DataMany(DataOf(d))
          ELSE LET effectiveData == CHOOSE i \in DataOf(d) : TRUE
               IN  IF effectiveData.id = "null" THEN DataNull ELSE DataOne(effectiveData)>> :
        d \in { x \in RelationshipsOf(type) : DataOf(x) # {} } }

\* _parseRecordFromDb with both JSON.parse calls in one try block: when the
\* attributes do not parse, the keys are not parsed either.
_parseRecordFromDb_OneTry(s, input, type) ==
  LET attributes == JSONparse(input.attributes)
      keys == IF input.attributes.k \in {"json", "null"}
              THEN JSONparse(input.keys) ELSE [k |-> "value", v |-> {}]
      relationships == _getRelationshipsForRecord(s, type, input.id)
  IN  [type |-> type, id |-> input.id,
       attributes |-> IF attributes.k = "value" /\ Cardinality(attributes.v) # 0
                      THEN Some(attributes.v) ELSE Absent,
       keys |-> IF keys.k = "value" /\ Cardinality(keys.v) # 0
                THEN Some(keys.v) ELSE Absent,
       relationships |-> IF Cardinality(relationships) # 0
                         THEN Some(relationships) ELSE Absent]

\* _parseRecordFromDb (336-366)
_parseRecordFromDb(s, input, type) ==
  LET attributes == JSONparse(input.attributes)
      keys == JSONparse(input.keys)
      relationships == _getRelationshipsForRecord(s, type, input.id)
  IN  [type |-> type, id |-> input.id,
       attributes |-> IF attributes.k = "value" /\ Cardinality(attributes.v) # 0
                      THEN Some(attributes.v) ELSE Absent,
       keys |-> IF keys.k = "value" /\ Cardinality(keys.v) # 0
                THEN Some(keys.v) ELSE Absent,
       relationships |-> IF Cardinality(relationships) # 0
                         THEN Some(relationships) ELSE Absent]

Undefined == [k |-> "undefined"]

\* getRecordAsync (368-382), on an open connection.
getRecord(s, identity) ==
  LET res == { r \in s.rows : r.table = identity.type /\ r.id = identity.id }
  IN  IF Cardinality(res) = 1
      THEN _parseRecordFromDb(s, CHOOSE r \in res : TRUE, identity.type)
      ELSE Undefined

\* getInverseRelationshipsAsync (614-641), on an open connection.
getInverseRelationships(s, recordIdentity) ==
  IF RelationshipsOf(recordIdentity.type) = {} THEN {}
  ELSE { [record |-> recordIdentity,
          relationship |-> e.relation_name,
          relatedRecord |-> Identity(e.source_table, e.source_id)] :
         e \in { x \in s.edges : x.target_id = recordIdentity.id
                                  /\ x.target_table = recordIdentity.type } }

\* ---------------------------------------------------- _setRecord (415-493)
\* _setRecord with the null branch (481-488) left out: an explicit null
\* has-one is not stored.
RelationshipStatements_SkipsNull(record, name, data) ==
  IF data.shape = "many"
  THEN LET rels == SetToSeq(data.ids)
       IN  [i \in 1..Len(rels) |->
              [op |-> "InsertEdge",
               edge |-> Edge(record.id, record.type, name, rels[i].id, rels[i].type)]]
  ELSE IF data.shape = "one"
  THEN LET rel == CHOOSE i \in data.ids : TRUE
       IN  << [op |-> "InsertEdge",
               edge |-> Edge(record.id, record.type, name, rel.id, rel.type)] >>
  ELSE <<>>

\* _setRecord that also stores, for a has-one, the row pointing back from
\* the target to the record.
RelationshipStatements_WritesInverse(record, name, data) ==
  IF data.shape = "many"
  THEN LET rels == SetToSeq(data.ids)
       IN  [i \in 1..Len(rels) |->
              [op |-> "InsertEdge",
               edge |-> Edge(record.id, record.type, name, rels[i].id, rels[i].type)]]
  ELSE IF data.shape = "one"
  THEN LET rel == CHOOSE i \in data.ids : TRUE
       IN  << [op |-> "InsertEdge",
               edge |-> Edge(record.id, record.type, name, rel.id, rel.type)],
              [op |-> "InsertEdge",
               edge |-> Edge(rel.id, rel.type, name, record.id, record.type)] >>
  ELSE << [op |-> "InsertEdge",
           edge |-> Edge(record.id, record.type, name, "null", "null")] >>

\* The INSERTs of one relationship of the record (459-490).
RelationshipStatements(record, name, data) ==
  IF data.shape = "many"
  THEN LET rels == SetToSeq(data.ids)
       IN  [i \in 1..Len(rels) |->
              [op |-> "InsertEdge",
               edge |-> Edge(record.id, record.type, name, rels[i].id, rels[i].type)]]
  ELSE IF data.shape = "one"
  THEN LET rel == CHOOSE i \in data.ids : TRUE
       IN  << [op |-> "InsertEdge",
               edge |-> Edge(record.id, record.type, name, rel.id, rel.type)] >>
  ELSE << [op |-> "InsertEdge",
           edge |-> Edge(record.id, record.type, name, "null", "null")] >>

\* _setRecord whose UPDATE writes both columns whatever the record carries.
_setRecord_ClobbersColumns(record, shouldInsert) ==
  LET attributesValue == IF record.attributes # Absent
                         THEN JSONstringify(record.attributes.v) ELSE NULL
      keysValue == IF record.keys # Absent THEN JSONstringify(record.keys.v) ELSE NULL
      rels == IF record.relationships = Absent THEN <<>>
              ELSE SetToSeq(record.relationships.v)
  IN  (IF shouldInsert
       THEN << [op |-> "InsertRow", table |-> record.type, id |-> record.id,
                attributes |-> attributesValue, keys |-> keysValue] >>
       ELSE << [op |-> "UpdateRow", table |-> record.type, id |-> record.id,
                setAttributes |-> TRUE, attributes |-> attributesValue,
                setKeys |-> TRUE, keys |-> keysValue] >>)
      \o << [op |-> "DeleteEdgesOf", table |-> record.type, id |-> record.id] >>
      \o Flatten([i \in 1..Len(rels) |->
                    RelationshipStatements(record, rels[i][1], rels[i][2])])

\* _setRecord without the DELETE of the record's edges (453-458).
_setRecord_KeepsEdges(record, shouldInsert) ==
  LET hasAttributes == record.attributes # Absent
      hasKeys == record.keys # Absent
      attributesValue == IF hasAttributes THEN JSONstringify(record.attributes.v) ELSE NULL
      keysValue == IF hasKeys THEN JSONstringify(record.keys.v) ELSE NULL
      rels == IF record.relationships = Absent THEN <<>>
              ELSE SetToSeq(record.relationships.v)
  IN  (IF shouldInsert
       THEN << [op |-> "InsertRow", table |-> record.type, id |-> record.id,
                attributes |-> attributesValue, keys |-> keysValue] >>
       ELSE IF hasAttributes \/ hasKeys
       THEN << [op |-> "UpdateRow", table |-> record.type, id |-> record.id,
                setAttributes |-> hasAttributes, attributes |-> attributesValue,
                setKeys |-> hasKeys, keys |-> keysValue] >>
       ELSE <<>>)
      \o Flatten([i \in 1..Len(rels) |->
                    RelationshipStatements(record, rels[i][1], rels[i][2])])

_setRecord(record, shouldInsert) ==
  LET hasAttributes == record.attributes # Absent
      hasKeys == record.keys # Absent
      attributesValue == IF hasAttributes THEN JSONstringify(record.attributes.v) ELSE NULL
      keysValue == IF hasKeys THEN JSONstringify(record.keys.v) ELSE NULL
      rels == IF record.relationships = Absent THEN <<>>
              ELSE SetToSeq(record.relationships.v)
  IN  (IF shouldInsert
       THEN << [op |-> "InsertRow", table |-> record.type, id |-> record.id,
                attributes |-> attributesValue, keys |-> keysValue] >>
       ELSE IF hasAttributes \/ hasKeys
       THEN << [op |-> "UpdateRow", table |-> record.type, id |-> record.id,
                setAttributes |-> hasAttributes, attributes |-> attributesValue,
                setKeys |-> hasKeys, keys |-> keysValue] >>
       ELSE <<>>)
      \o << [op |-> "DeleteEdgesOf", table |-> record.type, id |-> record.id] >>
      \o Flatten([i \in 1..Len(rels) |->
                    RelationshipStatements(record, rels[i][1], rels[i][2])])

\* The existence probe of setRecordAsync (535-540).
existingItemRSEmpty(s, record) ==
  { r \in s.rows : r.table = record.type /\ r.id = record.id } = {}

\* _removeRecord (582-589)
_removeRecord(recordIdentity) ==
  << [op |-> "DeleteRow", table |-> recordIdentity.type, id |-> recordIdentity.id] >>

\* ------------------------------------------- EventEmitter (utils, 40-61)
\* indexOf: the first index of h, 0 standing for -1.
IndexOf(hs, h) ==
  IF \E i \in 1..Len(hs) : hs[i] = h
  THEN CHOOSE i \in 1..Len(hs) : hs[i] = h /\ \A j \in 1..(i - 1) : hs[j] # h
  ELSE 0

\* off: splice(indexOf(callback), 1); splice(-1, 1) removes the last element.
off(hs, h) ==
  LET at == IF IndexOf(hs, h) = 0 THEN Len(hs) ELSE IndexOf(hs, h)
  IN  [i \in 1..(Len(hs) - 1) |-> IF i < at THEN hs[i] ELSE hs[i + 1]]

on(hs, h) == Append(hs, h)

\* trigger: for (const handler of handlers) handler(), over the live array,
\* every dbReady handler of openDB calling off on itself (103-106).
RECURSIVE trigger(_, _, _)
trigger(hs, i, called) ==
  IF i > Len(hs) THEN [handlers |-> hs, called |-> called]
  ELSE trigger(off(hs, hs[i]), i + 1, Append(called, hs[i]))

\* A sequence's elements.
Range(f) == { f[i] : i \in DOMAIN f }

\* ---------------------------------- stores written by older engine formats
AttrNames == {"name", "classification"}

Rec(type, id, attributes, keys, relationships) ==
  [type |-> type, id |-> id, attributes |-> attributes, keys |-> keys,
   relationships |-> relationships]

\* The records of the upgrade test (tests/tests/cache/index.ts, 1165-1190),
\* and one with keys and a has-one target.
LegacyFixture ==
  { Rec("planet", "jupiter", Some({<<"name", "Jupiter">>}), Absent,
        Some({<<"moons", DataMany({Identity("moon", "europa"), Identity("moon", "io")})>>})),
    Rec("moon", "europa", Some({<<"name", "Europa">>}), Absent,
        Some({<<"planet", DataOne(Identity("planet", "jupiter"))>>})),
    Rec("planet", "earth", Absent, Some({<<"remoteId", "p3">>}),
        Some({<<"solarSystem", DataOne(Identity("solarSystem", "ss1"))>>})) }

\* version0._setRecord: one column per attribute, __keys__ as JSON, one row of
\* relationships_<type>_<target type> per target.
V0Row(r) ==
  [table |-> r.type, id |-> r.id,
   attributes |-> [k |-> "cols",
                   v |-> { <<a, IF r.attributes # Absent
                                   /\ \E p \in r.attributes.v : p[1] = a
                                THEN (CHOOSE p \in r.attributes.v : p[1] = a)[2]
                                ELSE NullColumn>> : a \in AttrNames }],
   keys |-> IF r.keys # Absent THEN JSONstringify(r.keys.v) ELSE NULL]

V0Rels(r) ==
  IF r.relationships = Absent THEN {}
  ELSE UNION { { [table |-> <<r.type, i.type>>, src |-> r.id, tgt |-> i.id] :
                   i \in p[2].ids } : p \in r.relationships.v }

\* version0.createDBForSchema then insertRecords.
V0Store(records, version) ==
  [ EmptyStore EXCEPT
      !.versionTable = [exists |-> TRUE, rows |-> <<version>>],
      !.modelTables  = [m \in Models |-> "v0"],
      !.rows         = { V0Row(r) : r \in records },
      !.legacyTables = { LegacyTableOf(d) : d \in SchemaRelationships },
      !.legacyRels   = UNION { V0Rels(r) : r \in records } ]

\* ------------------------------------------------------------------ state
VARIABLES
  store,          \* the physical database of the namespace
  _db,            \* this._db: the connection, None when unset
  _dbGenerating,  \* this._dbGenerating
  handlers,       \* _dbAvailableEvent.handlers['dbReady'], callers by name
  pc,             \* where each caller's openDB call stands
  result,         \* what each caller's openDB promise resolved with
  steps,          \* the opener's place in _migrateDBInternalFrom: the steps still to run
  inFlight,       \* the callers that invoked openDB while an open was in flight
  schemaVersion,  \* this.dbVersion = schema.version
  connCount,      \* connections handed out by SQLite.openDatabase so far
  physOpens,      \* SQLite.openDatabase calls since the cache was constructed or last closed
  createPasses,   \* createDB passes since the cache was constructed or last closed
  cycleFresh,     \* the opener found no version table
  migLog,         \* internal migration steps committed on the store, in order
  failedSteps,    \* migration steps that threw, with the store before and after
  hookCalls,      \* migrateDB invocations since the cache was last closed, <<oldVersion, newVersion>>
  orig,           \* the records the store held when the model starts
  origFormat,     \* the internal format the store had when the model starts
  restarts,       \* times the store was opened again: new cache instances and reopenDB calls
  lastOp,         \* the last record operation, its argument and its result
  locals,         \* the local variables of each caller's operation in flight
  closedConns,    \* the connections close() was called on
  keyMap,         \* this._keyMap, when the cache was given one
  transformLog    \* the source's transformLog: the ids of the transforms applied

vars == << store, _db, _dbGenerating, handlers, pc, result, steps, inFlight, schemaVersion,
           connCount, physOpens, createPasses, cycleFresh, migLog, failedSteps,
           hookCalls, orig, origFormat, restarts, lastOp, locals, closedConns, keyMap,
           transformLog >>

None == 0

Callers == 1..NCallers

NoOp == [op |-> "none"]

\* No operation in flight.
NoLocals == [op |-> "none"]

\* settings.keyMap was not given: every `if (this._keyMap)` is skipped.
NoKeyMap == [configured |-> FALSE, map |-> {}]

\* The constructor (56-65): closed, not generating, no handler.
Constructed ==
  /\ _db = None
  /\ _dbGenerating = FALSE
  /\ handlers = <<>>
  /\ pc = [p \in Callers |-> "idle"]
  /\ result = [p \in Callers |-> None]
  /\ steps = <<>>
  /\ inFlight = {}
  /\ connCount = 0
  /\ physOpens = 0
  /\ createPasses = 0
  /\ cycleFresh = FALSE
  /\ migLog = <<>>
  /\ failedSteps = {}
  /\ hookCalls = <<>>
  /\ restarts = 0
  /\ lastOp = NoOp
  /\ locals = [p \in Callers |-> NoLocals]
  /\ closedConns = {}
  /\ keyMap = NoKeyMap
  /\ transformLog = {}

\* A new cache over a namespace that holds nothing, or a store written by the
\* format-0 engine, or that store after step 0->1 alone.
Init ==
  /\ Constructed
  /\ schemaVersion \in {1, 2}
  /\ \E records \in {{}, LegacyFixture}, format \in {0, 1, VERSION} :
       /\ format = VERSION => records = {}
       /\ orig = records
       /\ origFormat = format
       /\ store = CASE format = 0 -> V0Store(records, 1)
                    [] format = 1 -> _migrateDBInternalTo1(V0Store(records, 1), 0).s
                    [] OTHER -> EmptyStore

\* ------------------------------------------------------ openDB (97-160)
\* openDB without the _dbGenerating branch: every caller that finds no
\* connection opens one.
openDB_NoSingleFlight(p) ==
  /\ pc[p] \in {"idle", "reopening"}
  /\ IF _db # None
     THEN /\ pc' = [pc EXCEPT ![p] = "resolved"]
          /\ result' = [result EXCEPT ![p] = _db]
          /\ UNCHANGED << _dbGenerating, physOpens >>
     ELSE /\ _dbGenerating' = TRUE
          /\ physOpens' = physOpens + 1
          /\ pc' = [pc EXCEPT ![p] = "openDatabase"]
          /\ UNCHANGED << result >>
  /\ inFlight' = IF _dbGenerating THEN inFlight \cup {p} ELSE inFlight
  /\ UNCHANGED << store, _db, handlers, steps, schemaVersion, connCount, createPasses,
                  cycleFresh, migLog, failedSteps, hookCalls, orig, origFormat,
                  restarts, lastOp >>
  /\ UNCHANGED << locals, closedConns, keyMap, transformLog >>

\* The call, up to its first await: the connection if there is one, a dbReady
\* handler if an open is in flight, the physical open otherwise.
openDB(p) ==
  /\ pc[p] \in {"idle", "reopening"}
  /\ IF _db # None
     THEN /\ pc' = [pc EXCEPT ![p] = "resolved"]
          /\ result' = [result EXCEPT ![p] = _db]
          /\ UNCHANGED << _dbGenerating, handlers, physOpens >>
     ELSE IF _dbGenerating
     THEN /\ handlers' = on(handlers, p)
          /\ pc' = [pc EXCEPT ![p] = "waiting"]
          /\ UNCHANGED << _dbGenerating, result, physOpens >>
     ELSE /\ _dbGenerating' = TRUE
          /\ physOpens' = physOpens + 1
          /\ pc' = [pc EXCEPT ![p] = "openDatabase"]
          /\ UNCHANGED << handlers, result >>
  /\ inFlight' = IF _dbGenerating THEN inFlight \cup {p} ELSE inFlight
  /\ UNCHANGED << store, _db, steps, schemaVersion, connCount, createPasses, cycleFresh,
                  migLog, failedSteps, hookCalls, orig, origFormat, restarts, lastOp >>
  /\ UNCHANGED << locals, closedConns, keyMap, transformLog >>

\* SQLite.openDatabase resolves: this._db = db (113-114), the probe is issued.
OpenDatabaseResolves(p) ==
  /\ pc[p] = "openDatabase"
  /\ connCount' = connCount + 1
  /\ _db' = connCount + 1
  /\ pc' = [pc EXCEPT ![p] = "probeVersionTable"]
  /\ UNCHANGED << store, _dbGenerating, handlers, result, steps, inFlight, schemaVersion, physOpens,
                  createPasses, cycleFresh, migLog, failedSteps, hookCalls, orig,
                  origFormat, restarts, lastOp >>
  /\ UNCHANGED << locals, closedConns, keyMap, transformLog >>

\* SQLite.openDatabase rejects: openDB throws at line 113.
OpenDatabaseRejects(p) ==
  /\ pc[p] = "openDatabase"
  /\ pc' = [pc EXCEPT ![p] = "rejected"]
  /\ UNCHANGED << store, _db, _dbGenerating, handlers, result, steps, inFlight, schemaVersion,
                  connCount, physOpens, createPasses, cycleFresh, migLog, failedSteps,
                  hookCalls, orig, origFormat, restarts, lastOp >>
  /\ UNCHANGED << locals, closedConns, keyMap, transformLog >>

\* The probe taken to find no version table, whatever the store holds.
ProbeVersionTable_AlwaysCreates(p) ==
  /\ pc[p] = "probeVersionTable"
  /\ cycleFresh' = TRUE
  /\ pc' = [pc EXCEPT ![p] = "createDB"]
  /\ UNCHANGED << store, _db, _dbGenerating, handlers, result, steps, inFlight, schemaVersion,
                  connCount, physOpens, createPasses, migLog, failedSteps, hookCalls,
                  orig, origFormat, restarts, lastOp >>
  /\ UNCHANGED << locals, closedConns, keyMap, transformLog >>

\* The sqlite_master probe for the version table (116-126).
ProbeVersionTable(p) ==
  /\ pc[p] = "probeVersionTable"
  /\ cycleFresh' = ~store.versionTable.exists
  /\ pc' = [pc EXCEPT ![p] = IF store.versionTable.exists
                             THEN "readInternalVersion" ELSE "createDB"]
  /\ UNCHANGED << store, _db, _dbGenerating, handlers, result, steps, inFlight, schemaVersion,
                  connCount, physOpens, createPasses, migLog, failedSteps, hookCalls,
                  orig, origFormat, restarts, lastOp >>
  /\ UNCHANGED << locals, closedConns, keyMap, transformLog >>

\* await this.createDB(db, newVersion) (124): the transaction commits, or it
\* fails, rolls back and openDB throws.
CreateDB(p) ==
  /\ pc[p] = "createDB"
  /\ \E fault \in 0..Len(createDBStatements(schemaVersion)) :
       LET r == createDB(store, schemaVersion, fault)
       IN  /\ store' = r.s
           /\ pc' = [pc EXCEPT ![p] = IF r.ok THEN "finish" ELSE "rejected"]
  /\ createPasses' = createPasses + 1
  /\ UNCHANGED << _db, _dbGenerating, handlers, result, steps, inFlight, schemaVersion, connCount,
                  physOpens, cycleFresh, migLog, failedSteps, hookCalls, orig,
                  origFormat, restarts, lastOp >>
  /\ UNCHANGED << locals, closedConns, keyMap, transformLog >>

\* _migrateDBInternalFrom with the second test chained as an else-branch.
_migrateDBInternalFrom_ElseIf(currentInternalVersion) ==
  IF currentInternalVersion < 1 THEN <<1>>
  ELSE IF currentInternalVersion < 2 THEN <<2>> ELSE <<>>

\* _migrateDBInternalFrom (274-281): the steps it runs, in its order.
_migrateDBInternalFrom(currentInternalVersion) ==
  (IF currentInternalVersion < 1 THEN <<1>> ELSE <<>>)
  \o (IF currentInternalVersion < 2 THEN <<2>> ELSE <<>>)

StageOf(ss) ==
  IF ss = <<>> THEN "readVersion"
  ELSE IF Head(ss) = 1 THEN "migrateTo1" ELSE "migrateTo2"

\* The internal version the store is at (127-145): 0 without the table;
\* _migrateDBInternalFrom is entered if it is below VERSION.
ReadInternalVersion(p) ==
  /\ pc[p] = "readInternalVersion"
  /\ LET currentInternalVersion ==
           IF store.internalTable.exists THEN store.internalTable.rows[1] ELSE 0
         todo == IF currentInternalVersion < VERSION
                 THEN _migrateDBInternalFrom(currentInternalVersion) ELSE <<>>
     IN  /\ steps' = todo
         /\ pc' = [pc EXCEPT ![p] = StageOf(todo)]
  /\ UNCHANGED << store, _db, _dbGenerating, handlers, result, inFlight, schemaVersion,
                  connCount, physOpens, createPasses, cycleFresh, migLog, failedSteps,
                  hookCalls, orig, origFormat, restarts, lastOp >>
  /\ UNCHANGED << locals, closedConns, keyMap, transformLog >>

\* await this._migrateDBInternalTo1(db) (276): it commits, or it throws with
\* everything rolled back and openDB throws.
MigrateTo1(p) ==
  /\ pc[p] = "migrateTo1"
  /\ \E fault \in 0..Len(To1Statements(store)) :
       LET r == _migrateDBInternalTo1(store, fault)
       IN  /\ store' = r.s
           /\ migLog' = IF r.ok THEN Append(migLog, 1) ELSE migLog
           /\ failedSteps' = IF r.ok THEN failedSteps
                             ELSE failedSteps \cup {[step |-> 1, before |-> store, after |-> r.s]}
           /\ pc' = [pc EXCEPT ![p] = IF r.ok THEN StageOf(Tail(steps)) ELSE "rejected"]
  /\ steps' = Tail(steps)
  /\ UNCHANGED << _db, _dbGenerating, handlers, result, inFlight, schemaVersion, connCount,
                  physOpens, createPasses, cycleFresh, hookCalls, orig, origFormat,
                  restarts, lastOp >>
  /\ UNCHANGED << locals, closedConns, keyMap, transformLog >>

\* await this._migrateDBInternalTo2(db) (279).
MigrateTo2(p) ==
  /\ pc[p] = "migrateTo2"
  /\ \E fault \in 0..Len(To2Statements(store)) :
       LET r == _migrateDBInternalTo2(store, fault)
       IN  /\ store' = r.s
           /\ migLog' = IF r.ok THEN Append(migLog, 2) ELSE migLog
           /\ failedSteps' = IF r.ok THEN failedSteps
                             ELSE failedSteps \cup {[step |-> 2, before |-> store, after |-> r.s]}
           /\ pc' = [pc EXCEPT ![p] = IF r.ok THEN StageOf(Tail(steps)) ELSE "rejected"]
  /\ steps' = Tail(steps)
  /\ UNCHANGED << _db, _dbGenerating, handlers, result, inFlight, schemaVersion, connCount,
                  physOpens, createPasses, cycleFresh, hookCalls, orig, origFormat,
                  restarts, lastOp >>
  /\ UNCHANGED << locals, closedConns, keyMap, transformLog >>

\* The version check without its call of migrateDB.
ReadVersion_NeverMigrates(p) ==
  /\ pc[p] = "readVersion"
  /\ pc' = [pc EXCEPT ![p] = "finish"]
  /\ UNCHANGED << store, _db, _dbGenerating, handlers, result, steps, inFlight, schemaVersion,
                  connCount, physOpens, createPasses, cycleFresh, migLog, failedSteps,
                  hookCalls, orig, origFormat, restarts, lastOp >>
  /\ UNCHANGED << locals, closedConns, keyMap, transformLog >>

\* The stored user schema version against the schema's (147-154).
ReadVersion(p) ==
  /\ pc[p] = "readVersion"
  /\ LET oldVersion == store.versionTable.rows[1]
     IN  pc' = [pc EXCEPT ![p] = IF oldVersion # schemaVersion THEN "migrateDB" ELSE "finish"]
  /\ UNCHANGED << store, _db, _dbGenerating, handlers, result, steps, inFlight, schemaVersion,
                  connCount, physOpens, createPasses, cycleFresh, migLog, failedSteps,
                  hookCalls, orig, origFormat, restarts, lastOp >>
  /\ UNCHANGED << locals, closedConns, keyMap, transformLog >>

\* A migrateDB that records the new version in the store.
MigrateDB_SetsVersion(p) ==
  /\ pc[p] = "migrateDB"
  /\ hookCalls' = Append(hookCalls, <<store.versionTable.rows[1], schemaVersion>>)
  /\ store' = Transaction(store, setVersion(schemaVersion), 0).s
  /\ pc' = [pc EXCEPT ![p] = "finish"]
  /\ UNCHANGED << _db, _dbGenerating, handlers, result, steps, inFlight, schemaVersion,
                  connCount, physOpens, createPasses, cycleFresh, migLog, failedSteps,
                  orig, origFormat, restarts, lastOp >>
  /\ UNCHANGED << locals, closedConns, keyMap, transformLog >>

\* The default migrateDB hook (187-194): it reports and changes nothing.
MigrateDB(p) ==
  /\ pc[p] = "migrateDB"
  /\ hookCalls' = Append(hookCalls, <<store.versionTable.rows[1], schemaVersion>>)
  /\ pc' = [pc EXCEPT ![p] = "finish"]
  /\ UNCHANGED << store, _db, _dbGenerating, handlers, result, steps, inFlight, schemaVersion,
                  connCount, physOpens, createPasses, cycleFresh, migLog, failedSteps,
                  orig, origFormat, restarts, lastOp >>
  /\ UNCHANGED << locals, closedConns, keyMap, transformLog >>

\* Lines 156-158: the flag is cleared, dbReady is triggered (each handler
\* called resolves its caller with this._db), the opener returns db.
Finish(p) ==
  /\ pc[p] = "finish"
  /\ _dbGenerating' = FALSE
  /\ LET t == trigger(handlers, 1, <<>>)
     IN  /\ handlers' = t.handlers
         /\ pc' = [q \in Callers |->
                     IF q = p \/ q \in Range(t.called) THEN "resolved" ELSE pc[q]]
         /\ result' = [q \in Callers |->
                         IF q = p \/ q \in Range(t.called) THEN _db ELSE result[q]]
  /\ UNCHANGED << store, _db, steps, inFlight, schemaVersion, connCount, physOpens,
                  createPasses, cycleFresh, migLog, failedSteps, hookCalls, orig, origFormat,
                  restarts, lastOp >>
  /\ UNCHANGED << locals, closedConns, keyMap, transformLog >>

\* A new SQLiteCache on the same namespace (56-65): the process that held the
\* previous instance is gone, the store is what was committed.  The schema
\* may have been upgraded in between.
NewCache ==
  /\ restarts < MaxRestarts
  /\ \E p \in Callers : pc[p] # "idle"
  /\ restarts' = restarts + 1
  /\ _db' = None
  /\ _dbGenerating' = FALSE
  /\ handlers' = <<>>
  /\ pc' = [p \in Callers |-> "idle"]
  /\ result' = [p \in Callers |-> None]
  /\ steps' = <<>>
  /\ inFlight' = {}
  /\ physOpens' = 0
  /\ createPasses' = 0
  /\ cycleFresh' = FALSE
  /\ hookCalls' = <<>>
  /\ schemaVersion' \in {schemaVersion, schemaVersion + 1}
  /\ UNCHANGED << store, connCount, migLog, failedSteps, orig, origFormat, lastOp >>
  /\ UNCHANGED << locals, closedConns, keyMap, transformLog >>

\* schema.upgrade() on a cache with no open in flight: the schema version
\* goes up by one and the upgrade listener runs upgrade (71-76), that is
\* reopenDB (169-172): closeDB (162-167) closes the connection and unsets
\* this._db, and the caller goes on to call openDB.  Connections handed out
\* before are closed, so their holders have to call openDB again.
upgrade(p) ==
  /\ ~_dbGenerating
  /\ \A q \in Callers : pc[q] \in {"idle", "resolved"}
  /\ restarts < MaxRestarts
  /\ restarts' = restarts + 1
  /\ schemaVersion' = schemaVersion + 1
  /\ _db' = None
  /\ pc' = [q \in Callers |-> IF q = p THEN "reopening" ELSE "idle"]
  /\ result' = [q \in Callers |-> None]
  /\ inFlight' = {}
  /\ physOpens' = 0
  /\ createPasses' = 0
  /\ cycleFresh' = FALSE
  /\ hookCalls' = <<>>
  /\ lastOp' = [op |-> "upgrade", arg |-> schemaVersion, wasOpen |-> _db # None]
  /\ closedConns' = IF _db # None THEN closedConns \cup {_db} ELSE closedConns
  /\ UNCHANGED << store, _dbGenerating, handlers, steps, connCount, migLog, failedSteps,
                  orig, origFormat, locals, keyMap, transformLog >>

Next ==
  \/ \E p \in Callers :
       \/ openDB(p)
       \/ OpenDatabaseResolves(p)
       \/ OpenDatabaseRejects(p)
       \/ ProbeVersionTable(p)
       \/ CreateDB(p)
       \/ ReadInternalVersion(p)
       \/ MigrateTo1(p)
       \/ MigrateTo2(p)
       \/ ReadVersion(p)
       \/ MigrateDB(p)
       \/ Finish(p)
       \/ upgrade(p)
  \/ NewCache

Spec == Init /\ [][Next]_vars

\* ------------------------------------------------ the record operations
IdentityOf(r) == Identity(r.type, r.id)

Moons == { Identity("moon", "io"), Identity("moon", "europa"), Identity("moon", "callisto") }

Jupiter == Identity("planet", "jupiter")

Europa == Identity("moon", "europa")

SolarSystem1 == Identity("solarSystem", "ss1")

AttributeValues == { Absent, Some({<<"name", "Jupiter">>}) }

KeyValues == { Absent, Some({<<"remoteId", "j">>}) }

\* relationships of a planet: undefined, or an object with any of moons (a
\* list of at most MaxTargets distinct moons) and solarSystem (null or ss1).
PlanetRelationships ==
  {Absent} \cup
  { Some(ms \cup ss) :
      ms \in {{}} \cup { {<<"moons", DataMany(S)>>} :
                           S \in { T \in SUBSET Moons : Cardinality(T) <= MaxTargets } },
      ss \in { {}, {<<"solarSystem", DataNull>>}, {<<"solarSystem", DataOne(SolarSystem1)>>} } }

\* The records setRecordAsync is called with: jupiter with or without
\* attributes and with every relationships value, and jupiter without
\* relationships with every attributes value (the empty object too) and
\* with or without keys.
WriteRecords ==
  { Rec("planet", "jupiter", a, Absent, r) :
      a \in AttributeValues, r \in PlanetRelationships }
  \cup { Rec("planet", "jupiter", a, k, Absent) :
           a \in AttributeValues \cup {Some({})}, k \in KeyValues }

\* The identities removeRecordAsync and getRecordAsync are called with.
ReadIdentities == { Jupiter, Europa }

\* this._keyMap.pushRecord(record) behind `if (this._keyMap)` (376-378,
\* 395-397, 545-547, 574-578): every key of the record maps to its id, in
\* place of what the (type, key name, key value) mapped to before.
pushRecord(km, record) ==
  IF ~km.configured \/ record = Undefined THEN km
  ELSE IF record.keys = Absent THEN km
  ELSE [km EXCEPT !.map =
          { e \in @ : ~(e.type = record.type /\ <<e.key, e.value>> \in record.keys.v) }
          \cup { [type |-> record.type, key |-> k[1], value |-> k[2], id |-> record.id] :
                   k \in record.keys.v }]

\* pushRecord of each record of a list, in order.
RECURSIVE pushRecords(_, _)
pushRecords(km, records) ==
  IF records = <<>> THEN km
  ELSE pushRecords(pushRecord(km, Head(records)), Tail(records))

DataUnchanged ==
  UNCHANGED << _db, _dbGenerating, handlers, pc, result, steps, inFlight, schemaVersion,
               connCount, physOpens, createPasses, cycleFresh, migLog, failedSteps,
               hookCalls, orig, origFormat, restarts, locals, closedConns, transformLog >>

\* The relationships getRecordAsync reports for an identity (Absent when the
\* record is missing or has none).
RelationshipsRead(s, identity) ==
  IF getRecord(s, identity) = Undefined THEN Absent
  ELSE getRecord(s, identity).relationships

\* setRecordAsync (532-548) on an open cache: the probe, the transaction of
\* _setRecord, the read back.  lastOp keeps the call, the relationships the
\* record had before it, and the record read back.
setRecordAsync(record) ==
  /\ _db # None
  /\ LET tx == Transaction(store, _setRecord(record, existingItemRSEmpty(store, record)), 0)
     IN  /\ store' = tx.s
         /\ lastOp' = [op |-> "setRecordAsync", arg |-> record, ok |-> tx.ok,
                       before |-> RelationshipsRead(store, IdentityOf(record)),
                       result |-> getRecord(tx.s, IdentityOf(record))]
         /\ keyMap' = IF tx.ok THEN pushRecord(keyMap, getRecord(tx.s, IdentityOf(record)))
                       ELSE keyMap
  /\ DataUnchanged

\* getRecordAsync without its keyMap.pushRecord (376-378).
getRecordAsync_NoPush(identity) ==
  /\ _db # None
  /\ lastOp' = [op |-> "getRecordAsync", arg |-> identity, ok |-> TRUE,
                mapped |-> keyMap.map, before |-> Absent,
                result |-> getRecord(store, identity)]
  /\ UNCHANGED << store, keyMap >>
  /\ DataUnchanged

\* getRecordAsync (368-382) on an open cache; lastOp keeps in `mapped` the
\* keyMap as it was when it was called.
getRecordAsync(identity) ==
  /\ _db # None
  /\ lastOp' = [op |-> "getRecordAsync", arg |-> identity, ok |-> TRUE,
                mapped |-> keyMap.map, before |-> Absent, result |-> getRecord(store, identity)]
  /\ keyMap' = pushRecord(keyMap, getRecord(store, identity))
  /\ UNCHANGED store
  /\ DataUnchanged

\* removeRecordAsync that throws when there is no record to remove.
removeRecordAsync_ThrowsWhenMissing(recordIdentity) ==
  /\ _db # None
  /\ LET initialRecord == getRecord(store, recordIdentity)
         tx == IF initialRecord = Undefined THEN [ok |-> FALSE, s |-> store]
               ELSE Transaction(store, _removeRecord(recordIdentity), 0)
     IN  /\ store' = tx.s
         /\ lastOp' = [op |-> "removeRecordAsync", arg |-> recordIdentity, ok |-> tx.ok,
                       before |-> Absent, result |-> initialRecord]
         /\ keyMap' = pushRecord(keyMap, initialRecord)
  /\ DataUnchanged

\* removeRecordAsync that also deletes the edges whose target is the record.
removeRecordAsync_PrunesInverse(recordIdentity) ==
  /\ _db # None
  /\ LET initialRecord == getRecord(store, recordIdentity)
         inverse == SetToSeq({ e \in store.edges : e.target_id = recordIdentity.id
                                                   /\ e.target_table = recordIdentity.type })
         tx == Transaction(store,
                   _removeRecord(recordIdentity)
                   \o [i \in 1..Len(inverse) |-> [op |-> "DeleteEdge", edge |-> inverse[i]]], 0)
     IN  /\ store' = tx.s
         /\ lastOp' = [op |-> "removeRecordAsync", arg |-> recordIdentity, ok |-> tx.ok,
                       before |-> Absent, result |-> initialRecord]
         /\ keyMap' = pushRecord(keyMap, initialRecord)
  /\ DataUnchanged

\* removeRecordAsync (591-598) on an open cache; it resolves with the record
\* as it was (ok: the promise resolves).
removeRecordAsync(recordIdentity) ==
  /\ _db # None
  /\ LET initialRecord == getRecord(store, recordIdentity)
         tx == Transaction(store, _removeRecord(recordIdentity), 0)
     IN  /\ store' = tx.s
         /\ lastOp' = [op |-> "removeRecordAsync", arg |-> recordIdentity, ok |-> tx.ok,
                       before |-> Absent, result |-> initialRecord]
         /\ keyMap' = pushRecord(keyMap, initialRecord)
  /\ DataUnchanged

\* removeRecordsAsync that reads the records once the transaction is done.
removeRecordsAsync_ReadsAfter(records) ==
  /\ _db # None
  /\ LET tx == Transaction(store,
                   Flatten([i \in 1..Len(records) |-> _removeRecord(records[i])]), 0)
         initialRecords == [i \in 1..Len(records) |-> getRecord(tx.s, records[i])]
     IN  /\ store' = tx.s
         /\ lastOp' = [op |-> "removeRecordsAsync", arg |-> records, ok |-> tx.ok,
                       before |-> Absent,
                       result |-> SelectSeq(initialRecords, LAMBDA r : r # Undefined)]
         /\ keyMap' = pushRecords(keyMap, SelectSeq(initialRecords, LAMBDA r : r # Undefined))
  /\ DataUnchanged

\* removeRecordsAsync (600-612) of a list of identities.
removeRecordsAsync(records) ==
  /\ _db # None
  /\ LET initialRecords == [i \in 1..Len(records) |-> getRecord(store, records[i])]
         tx == Transaction(store,
                   Flatten([i \in 1..Len(records) |-> _removeRecord(records[i])]), 0)
     IN  /\ store' = tx.s
         /\ lastOp' = [op |-> "removeRecordsAsync", arg |-> records, ok |-> tx.ok,
                       before |-> Absent,
                       result |-> SelectSeq(initialRecords, LAMBDA r : r # Undefined)]
         /\ keyMap' = pushRecords(keyMap, SelectSeq(initialRecords, LAMBDA r : r # Undefined))
  /\ DataUnchanged

\* An open cache over the store its first openDB created.
InitData ==
  /\ _db = 1
  /\ _dbGenerating = FALSE
  /\ handlers = <<>>
  /\ pc = [p \in Callers |-> IF p = 1 THEN "resolved" ELSE "idle"]
  /\ result = [p \in Callers |-> IF p = 1 THEN 1 ELSE None]
  /\ steps = <<>>
  /\ inFlight = {}
  /\ schemaVersion = 1
  /\ connCount = 1
  /\ physOpens = 1
  /\ createPasses = 1
  /\ cycleFresh = TRUE
  /\ migLog = <<>>
  /\ failedSteps = {}
  /\ hookCalls = <<>>
  /\ orig = {}
  /\ origFormat = VERSION
  /\ restarts = 0
  /\ lastOp = NoOp
  /\ locals = [p \in Callers |-> NoLocals]
  /\ closedConns = {}
  /\ keyMap = NoKeyMap
  /\ transformLog = {}
  /\ store = createDB(EmptyStore, 1, 0).s

NextData ==
  \/ \E record \in WriteRecords : setRecordAsync(record)
  \/ \E identity \in ReadIdentities : getRecordAsync(identity)
  \/ \E identity \in ReadIdentities : removeRecordAsync(identity)
  \/ \E i1 \in ReadIdentities, i2 \in ReadIdentities : removeRecordsAsync(<<i1, i2>>)

SpecData == InitData /\ [][NextData]_vars

\* --------------------------------------- inverse relationships and batches
Earth == Identity("planet", "earth")

\* The records the edge operations are mixed with: jupiter with a moon,
\* jupiter with a solar system, europa with its planet, europa with an
\* explicit null planet.
JupiterWithMoon ==
  Rec("planet", "jupiter", Some({<<"name", "Jupiter">>}), Absent,
      Some({<<"moons", DataMany({Europa})>>}))

JupiterInSolarSystem ==
  Rec("planet", "jupiter", Absent, Absent, Some({<<"solarSystem", DataOne(SolarSystem1)>>}))

EuropaOfJupiter ==
  Rec("moon", "europa", Absent, Absent, Some({<<"planet", DataOne(Jupiter)>>}))

EuropaOfNoPlanet ==
  Rec("moon", "europa", Absent, Absent, Some({<<"planet", DataNull>>}))

EdgeRecords == { JupiterWithMoon, JupiterInSolarSystem, EuropaOfJupiter, EuropaOfNoPlanet }

\* The records setRecordsAsync is called with in a batch.
BatchRecords == { JupiterWithMoon, EuropaOfJupiter }

\* A RecordRelationshipIdentity: relatedRecord holds `relationship` to record.
RecordRelationshipIdentity(record, relationship, relatedRecord) ==
  [record |-> record, relationship |-> relationship, relatedRecord |-> relatedRecord]

\* The entries the inverse operations are called with: europa -planet->
\* jupiter (the edge EuropaOfJupiter stores), europa -planet-> earth (a second
\* target of the same has-one), jupiter -solarSystem-> ss1 (a target whose
\* model declares no relationships).
InverseEntries ==
  { RecordRelationshipIdentity(Jupiter, "planet", Europa),
    RecordRelationshipIdentity(Earth, "planet", Europa),
    RecordRelationshipIdentity(SolarSystem1, "solarSystem", Jupiter) }

\* The lists of one or two elements of a set.
ListsOf(S) == { <<a>> : a \in S } \cup { <<a, b>> : a \in S, b \in S }

\* The identities the inverse relationships are asked of.
InverseIdentities == { Jupiter, Earth, Europa, SolarSystem1 }

\* The row an entry stands for (656, 678).
EdgeOfEntry(x) ==
  Edge(x.relatedRecord.id, x.relatedRecord.type, x.relationship, x.record.id, x.record.type)

\* getRecordsAsync without the filter of the undefined results (409).
getRecords_KeepsMissing(s, identities) ==
  [i \in 1..Len(identities) |-> getRecord(s, identities[i])]

\* getRecordsAsync of a list of identities (402-412): the records found, in
\* the order of the identities, the missing ones filtered out.
getRecords(s, identities) ==
  SelectSeq([i \in 1..Len(identities) |-> getRecord(s, identities[i])],
            LAMBDA r : r # Undefined)

getRecordsAsync(identities) ==
  /\ _db # None
  /\ lastOp' = [op |-> "getRecordsAsync", arg |-> identities, ok |-> TRUE,
                result |-> getRecords(store, identities)]
  /\ keyMap' = pushRecords(keyMap, getRecords(store, identities))
  /\ UNCHANGED store
  /\ DataUnchanged

\* setRecordsAsync (550-580): every probe first, then one transaction with
\* _setRecord of each record under its own probe's answer, then the read
\* back.  An empty list does nothing.
setRecordsAsync(records) ==
  /\ _db # None
  /\ LET recordsToAdd == [i \in 1..Len(records) |->
                            [record |-> records[i],
                             shouldInsert |-> existingItemRSEmpty(store, records[i])]]
         tx == IF Len(records) > 0
               THEN Transaction(store,
                      Flatten([i \in 1..Len(records) |->
                                 _setRecord(recordsToAdd[i].record,
                                            recordsToAdd[i].shouldInsert)]), 0)
               ELSE [ok |-> TRUE, s |-> store]
     IN  /\ store' = tx.s
         /\ lastOp' = [op |-> "setRecordsAsync", arg |-> records, ok |-> tx.ok,
                       result |-> IF tx.ok
                                  THEN getRecords(tx.s, [i \in 1..Len(records) |->
                                                           IdentityOf(records[i])])
                                  ELSE Undefined]
         /\ keyMap' = IF tx.ok
                       THEN pushRecords(keyMap, getRecords(tx.s, [i \in 1..Len(records) |->
                                                                    IdentityOf(records[i])]))
                       ELSE keyMap
  /\ DataUnchanged

\* getInverseRelationshipsAsync (614-641) on an open cache.
getInverseRelationshipsAsync(recordIdentity) ==
  /\ _db # None
  /\ lastOp' = [op |-> "getInverseRelationshipsAsync", arg |-> recordIdentity, ok |-> TRUE,
                result |-> getInverseRelationships(store, recordIdentity)]
  /\ UNCHANGED << store, keyMap >>
  /\ DataUnchanged

\* The statements of addInverseRelationshipsAsync (650-659): a plain INSERT
\* for each entry.
addInverseRelationships(relationships) ==
  [i \in 1..Len(relationships) |->
     [op |-> "InsertEdge", edge |-> EdgeOfEntry(relationships[i])]]

\* addInverseRelationshipsAsync (643-660); an empty list returns at once.
addInverseRelationshipsAsync(relationships) ==
  /\ _db # None
  /\ LET tx == IF Len(relationships) = 0 THEN [ok |-> TRUE, s |-> store]
               ELSE Transaction(store, addInverseRelationships(relationships), 0)
     IN  /\ store' = tx.s
         /\ lastOp' = [op |-> "addInverseRelationshipsAsync", arg |-> relationships,
                       ok |-> tx.ok, result |-> Undefined]
         /\ UNCHANGED keyMap
  /\ DataUnchanged

\* removeInverseRelationshipsAsync whose DELETE names the source only.
removeInverseRelationships_BySource(relationships) ==
  [i \in 1..Len(relationships) |->
     [op |-> "DeleteEdgesOf", table |-> relationships[i].relatedRecord.type,
      id |-> relationships[i].relatedRecord.id]]

\* The statements of removeInverseRelationshipsAsync (669-681): a DELETE of
\* the row equal to the entry in all five columns.
removeInverseRelationships(relationships) ==
  [i \in 1..Len(relationships) |->
     [op |-> "DeleteEdge", edge |-> EdgeOfEntry(relationships[i])]]

\* removeInverseRelationshipsAsync (662-682); lastOp keeps in `before` the
\* edges of the entries that were stored when it was called.
removeInverseRelationshipsAsync(relationships) ==
  /\ _db # None
  /\ LET tx == IF Len(relationships) = 0 THEN [ok |-> TRUE, s |-> store]
               ELSE Transaction(store, removeInverseRelationships(relationships), 0)
     IN  /\ store' = tx.s
         /\ lastOp' = [op |-> "removeInverseRelationshipsAsync", arg |-> relationships,
                       ok |-> tx.ok, result |-> Undefined,
                       before |-> { e \in store.edges :
                                     \E i \in 1..Len(relationships) :
                                       e = EdgeOfEntry(relationships[i]) }]
         /\ UNCHANGED keyMap
  /\ DataUnchanged

NextEdges ==
  \/ \E record \in EdgeRecords : setRecordAsync(record)
  \/ \E records \in {<<>>} \cup ListsOf(BatchRecords) : setRecordsAsync(records)
  \/ \E identity \in ReadIdentities : removeRecordAsync(identity)
  \/ \E identities \in {<<>>} \cup ListsOf(ReadIdentities) : removeRecordsAsync(identities)
  \/ \E identity \in ReadIdentities : getRecordAsync(identity)
  \/ \E identities \in {<<>>} \cup ListsOf(ReadIdentities) : getRecordsAsync(identities)
  \/ \E relationships \in {<<>>} \cup ListsOf(InverseEntries) :
        addInverseRelationshipsAsync(relationships)
  \/ \E relationships \in {<<>>} \cup ListsOf(InverseEntries) :
        removeInverseRelationshipsAsync(relationships)
  \/ \E identity \in InverseIdentities : getInverseRelationshipsAsync(identity)

SpecEdges == InitData /\ [][NextEdges]_vars

\* ------------------------------------------- a cache with a keyMap
Mercury == Identity("planet", "mercury")

Venus == Identity("planet", "venus")

\* The relationships of a planet to its own type: next alone, previous
\* alone, both to the same planet, each to another planet.
NeighbourRelationships ==
  { Absent,
    Some({<<"next", DataOne(Venus)>>}),
    Some({<<"previous", DataOne(Venus)>>}),
    Some({<<"previous", DataOne(Venus)>>, <<"next", DataOne(Venus)>>}),
    Some({<<"previous", DataOne(Earth)>>, <<"next", DataOne(Venus)>>}) }

\* mercury with or without its key and with every such relationships value,
\* and venus with its key.
KeyRecords ==
  { Rec("planet", "mercury", Absent, k, r) :
      k \in { Absent, Some({<<"remoteId", "p1">>}) }, r \in NeighbourRelationships }
  \cup { Rec("planet", "venus", Absent, Some({<<"remoteId", "p2">>}),
              Some({<<"previous", DataOne(Mercury)>>})) }

KeyIdentities == { Mercury, Venus }

\* keyMap.reset() (tests/tests/cache/index.ts, 853-854)
ResetKeyMap ==
  /\ keyMap.configured
  /\ keyMap.map # {}
  /\ keyMap' = [keyMap EXCEPT !.map = {}]
  /\ lastOp' = [op |-> "keyMap.reset"]
  /\ UNCHANGED store
  /\ DataUnchanged

\* An open cache that was given a keyMap, over the store its openDB created.
InitKeys ==
  /\ _db = 1
  /\ _dbGenerating = FALSE
  /\ handlers = <<>>
  /\ pc = [p \in Callers |-> IF p = 1 THEN "resolved" ELSE "idle"]
  /\ result = [p \in Callers |-> IF p = 1 THEN 1 ELSE None]
  /\ steps = <<>>
  /\ inFlight = {}
  /\ schemaVersion = 1
  /\ connCount = 1
  /\ physOpens = 1
  /\ createPasses = 1
  /\ cycleFresh = TRUE
  /\ migLog = <<>>
  /\ failedSteps = {}
  /\ hookCalls = <<>>
  /\ orig = {}
  /\ origFormat = VERSION
  /\ restarts = 0
  /\ lastOp = NoOp
  /\ locals = [p \in Callers |-> NoLocals]
  /\ closedConns = {}
  /\ keyMap = [configured |-> TRUE, map |-> {}]
  /\ transformLog = {}
  /\ store = createDB(EmptyStore, 1, 0).s

NextKeys ==
  \/ \E record \in KeyRecords : setRecordAsync(record)
  \/ \E records \in ListsOf({ r \in KeyRecords : r.keys # Absent /\ r.relationships # Absent }) :
        setRecordsAsync(records)
  \/ \E identity \in KeyIdentities : getRecordAsync(identity)
  \/ \E identities \in ListsOf(KeyIdentities) : getRecordsAsync(identities)
  \/ \E identity \in KeyIdentities : removeRecordAsync(identity)
  \/ ResetKeyMap

SpecKeys == InitKeys /\ [][NextKeys]_vars

\* ------------------------------------------- SQLiteSource (sqlite-source.ts)
\* A transform: an id and a list of record operations.
Transform(id, operations) == [id |-> id, operations |-> operations]

AddRecord(record) == [op |-> "addRecord", record |-> record]

RemoveRecord(identity) == [op |-> "removeRecord", record |-> identity]

\* The transforms pushed and synced: one adds jupiter, one adds europa and
\* removes jupiter, one adds jupiter in another shape.
Transforms ==
  { Transform("t1", << AddRecord(JupiterWithMoon) >>),
    Transform("t2", << AddRecord(EuropaOfJupiter), RemoveRecord(Jupiter) >>),
    Transform("t3", << AddRecord(JupiterInSolarSystem) >>) }

\* this._cache.patch(operations) (105, 118): each operation in turn, an
\* addRecord through setRecordAsync, a removeRecord through
\* removeRecordAsync, each in its own transaction.
RECURSIVE patch(_, _)
patch(s, operations) ==
  IF operations = <<>> THEN [ok |-> TRUE, s |-> s]
  ELSE LET o == Head(operations)
           tx == IF o.op = "addRecord"
                 THEN Transaction(s, _setRecord(o.record, existingItemRSEmpty(s, o.record)), 0)
                 ELSE Transaction(s, _removeRecord(o.record), 0)
       IN  IF tx.ok THEN patch(tx.s, Tail(operations)) ELSE [ok |-> FALSE, s |-> tx.s]

SourceUnchanged ==
  UNCHANGED << _db, _dbGenerating, handlers, pc, result, steps, inFlight, schemaVersion,
               connCount, physOpens, createPasses, cycleFresh, migLog, failedSteps,
               hookCalls, orig, origFormat, restarts, locals, closedConns, keyMap >>

\* _push that patches whatever the transform log holds.
_push_NoLogCheck(transform) ==
  /\ _db # None
  /\ LET applied == patch(store, transform.operations)
     IN  /\ store' = applied.s
         /\ transformLog' = IF applied.ok THEN transformLog \cup {transform.id}
                             ELSE transformLog
         /\ lastOp' = [op |-> "_push", arg |-> transform, ok |-> applied.ok,
                       patched |-> << transform.operations >>,
                       result |-> << transform >>]
  /\ SourceUnchanged

\* _push (114-127), one request at a time; this.transformed (120) logs the
\* transform's id.  lastOp keeps in `patched` the patch calls made.
_push(transform) ==
  /\ _db # None
  /\ IF transform.id \notin transformLog
     THEN LET applied == patch(store, transform.operations)
          IN  /\ store' = applied.s
              /\ transformLog' = IF applied.ok THEN transformLog \cup {transform.id}
                                  ELSE transformLog
              /\ lastOp' = [op |-> "_push", arg |-> transform, ok |-> applied.ok,
                            patched |-> << transform.operations >>,
                            result |-> << transform >>]
     ELSE /\ lastOp' = [op |-> "_push", arg |-> transform, ok |-> TRUE,
                        patched |-> <<>>, result |-> <<>>]
          /\ UNCHANGED << store, transformLog >>
  /\ SourceUnchanged

\* _sync (103-108), one request at a time.
_sync(transform) ==
  /\ _db # None
  /\ IF transform.id \notin transformLog
     THEN LET applied == patch(store, transform.operations)
          IN  /\ store' = applied.s
              /\ transformLog' = IF applied.ok THEN transformLog \cup {transform.id}
                                  ELSE transformLog
              /\ lastOp' = [op |-> "_sync", arg |-> transform, ok |-> applied.ok,
                            patched |-> << transform.operations >>, result |-> Undefined]
     ELSE /\ lastOp' = [op |-> "_sync", arg |-> transform, ok |-> TRUE,
                        patched |-> <<>>, result |-> Undefined]
          /\ UNCHANGED << store, transformLog >>
  /\ SourceUnchanged

NextSource ==
  \/ \E transform \in Transforms : _push(transform)
  \/ \E transform \in Transforms : _sync(transform)
  \/ \E identity \in ReadIdentities : removeRecordAsync(identity)

SpecSource == InitData /\ [][NextSource]_vars

\* ------------------------------------------- getRecordsAsync() of all types
\* A store of the current format that holds jupiter with its moon europa.
PopulatedStore ==
  Transaction(createDB(EmptyStore, 1, 0).s,
              _setRecord(JupiterWithMoon, TRUE) \o _setRecord(EuropaOfJupiter, TRUE), 0).s

\* getRecordsAsync(type) after its openDB (391-400): the rows of the table,
\* each parsed with its relationships.
getRecordsOfType(s, type) ==
  LET rows == SetToSeq({ r \in s.rows : r.table = type })
  IN  [i \in 1..Len(rows) |-> _parseRecordFromDb(s, rows[i], type)]

\* What a list of openDB calls made in one turn of the event loop leaves,
\* each call run up to its first await (97-113) on what the one before left.
RECURSIVE openDBCalls(_, _)
openDBCalls(c, ps) ==
  IF ps = <<>> THEN c
  ELSE LET p == Head(ps)
           after ==
             IF c._db # None
             THEN [c EXCEPT !.pc[p] = "resolved", !.result[p] = c._db]
             ELSE IF c._dbGenerating
             THEN [c EXCEPT !.pc[p] = "waiting", !.handlers = on(@, p),
                            !.inFlight = @ \cup {p}]
             ELSE [c EXCEPT !.pc[p] = "openDatabase", !._dbGenerating = TRUE,
                            !.physOpens = @ + 1]
       IN  openDBCalls(after, Tail(ps))

\* The callers that carry the per-type calls of _getAllRecords, in the order
\* of Object.keys(this.schema.models).
TypeCallers == 1..Len(ModelSeq)

\* getRecordsAsync() -> _getAllRecords (385-387, 688-693): one
\* getRecordsAsync(model) per declared model, all started in the same turn,
\* each running up to its `await this.openDB()`.
_getAllRecords ==
  /\ \A p \in TypeCallers : pc[p] = "idle" /\ locals[p] = NoLocals
  /\ LET c == openDBCalls([_db |-> _db, _dbGenerating |-> _dbGenerating,
                           handlers |-> handlers, pc |-> pc, result |-> result,
                           physOpens |-> physOpens, inFlight |-> inFlight],
                          [i \in TypeCallers |-> i])
     IN  /\ _dbGenerating' = c._dbGenerating
         /\ handlers' = c.handlers
         /\ pc' = c.pc
         /\ result' = c.result
         /\ physOpens' = c.physOpens
         /\ inFlight' = c.inFlight
  /\ locals' = [p \in Callers |->
                  IF p \in TypeCallers
                  THEN [op |-> "getRecordsAsync", type |-> ModelSeq[p],
                        done |-> FALSE, records |-> <<>>]
                  ELSE locals[p]]
  /\ UNCHANGED << store, _db, steps, schemaVersion, connCount, createPasses, cycleFresh,
                  migLog, failedSteps, hookCalls, orig, origFormat, restarts, lastOp,
                  closedConns, keyMap, transformLog >>

\* A per-type call goes on once its openDB has resolved (391-400).
getRecordsAsyncOfType(p) ==
  /\ pc[p] = "resolved"
  /\ locals[p].op = "getRecordsAsync"
  /\ ~locals[p].done
  /\ locals' = [locals EXCEPT ![p].done = TRUE,
                              ![p].records = getRecordsOfType(store, locals[p].type)]
  /\ keyMap' = pushRecords(keyMap, getRecordsOfType(store, locals[p].type))
  /\ UNCHANGED << store, _db, _dbGenerating, handlers, pc, result, steps, inFlight,
                  schemaVersion, connCount, physOpens, createPasses, cycleFresh, migLog,
                  failedSteps, hookCalls, orig, origFormat, restarts, lastOp,
                  closedConns, transformLog >>

\* Promise.all settles (689-692): it resolves with the lists concatenated
\* once every per-type call has resolved, it rejects when one has rejected.
_getAllRecordsSettles ==
  /\ \E p \in TypeCallers : locals[p].op = "getRecordsAsync"
  /\ \/ /\ \A p \in TypeCallers : locals[p].done
        /\ lastOp' = [op |-> "_getAllRecords", ok |-> TRUE,
                      result |-> Flatten([p \in TypeCallers |-> locals[p].records])]
        /\ pc' = [p \in Callers |-> IF p \in TypeCallers THEN "idle" ELSE pc[p]]
     \/ /\ \E p \in TypeCallers : pc[p] = "rejected"
        /\ lastOp' = [op |-> "_getAllRecords", ok |-> FALSE, result |-> Undefined]
        /\ UNCHANGED pc
  /\ locals' = [p \in Callers |-> IF p \in TypeCallers THEN NoLocals ELSE locals[p]]
  /\ UNCHANGED << store, _db, _dbGenerating, handlers, result, steps, inFlight,
                  schemaVersion, connCount, physOpens, createPasses, cycleFresh, migLog,
                  failedSteps, hookCalls, orig, origFormat, restarts,
                  closedConns, keyMap, transformLog >>

\* A cache over a new namespace or over a populated store of the current
\* format, still closed or already open.
InitAll ==
  /\ \E open \in BOOLEAN :
       /\ _db = IF open THEN 1 ELSE None
       /\ connCount = IF open THEN 1 ELSE 0
       /\ physOpens = IF open THEN 1 ELSE 0
       /\ store \in IF open THEN {PopulatedStore, createDB(EmptyStore, 1, 0).s}
                    ELSE {PopulatedStore, EmptyStore}
  /\ _dbGenerating = FALSE
  /\ handlers = <<>>
  /\ pc = [p \in Callers |-> "idle"]
  /\ result = [p \in Callers |-> None]
  /\ steps = <<>>
  /\ inFlight = {}
  /\ schemaVersion = 1
  /\ createPasses = 0
  /\ cycleFresh = FALSE
  /\ migLog = <<>>
  /\ failedSteps = {}
  /\ hookCalls = <<>>
  /\ orig = {}
  /\ origFormat = VERSION
  /\ restarts = 0
  /\ lastOp = NoOp
  /\ locals = [p \in Callers |-> NoLocals]
  /\ closedConns = {}
  /\ keyMap = NoKeyMap
  /\ transformLog = {}

NextAll ==
  \/ _getAllRecords
  \/ \E p \in Callers :
       \/ OpenDatabaseResolves(p)
       \/ OpenDatabaseRejects(p)
       \/ ProbeVersionTable(p)
       \/ CreateDB(p)
       \/ ReadInternalVersion(p)
       \/ ReadVersion(p)
       \/ Finish(p)
       \/ getRecordsAsyncOfType(p)
  \/ _getAllRecordsSettles
  \/ \E record \in EdgeRecords :
       /\ \A p \in Callers : locals[p] = NoLocals
       /\ setRecordAsync(record)

SpecAll == InitAll /\ [][NextAll]_vars

\* ------------------------------------- record operations, step by step
\* Two versions of one planet that differ in their attributes and in their
\* relationships.
JupiterWithIo ==
  Rec("planet", "jupiter", Some({<<"name", "Jove">>}), Absent,
      Some({<<"moons", DataMany({Identity("moon", "io")})>>}))

ConcRecords == { JupiterWithMoon, JupiterWithIo }

ConcUnchanged ==
  UNCHANGED << _db, _dbGenerating, handlers, result, steps, inFlight, schemaVersion,
               connCount, physOpens, createPasses, cycleFresh, migLog, failedSteps,
               hookCalls, orig, origFormat, restarts, closedConns, transformLog >>

\* A call of getRecordAsync that is between its first and its last statement
\* keeps in `versions` every state its record has had since it was called.
Reading(l, identity) ==
  l.op = "getRecordAsync" /\ l.arg = identity

\* setRecordAsync is called on an open cache (532-533): openDB returns the
\* connection, the probe is issued.
setRecordAsyncCalled(p, record) ==
  /\ _db # None
  /\ pc[p] = "idle"
  /\ pc' = [pc EXCEPT ![p] = "probe"]
  /\ locals' = [locals EXCEPT ![p] = [op |-> "setRecordAsync", arg |-> record,
                                      shouldInsert |-> FALSE, row |-> Undefined,
                                      versions |-> {}]]
  /\ UNCHANGED << store, lastOp, keyMap >>
  /\ ConcUnchanged

\* The existence probe answers (535-540), the transaction is issued.
setRecordAsyncProbed(p) ==
  /\ pc[p] = "probe"
  /\ pc' = [pc EXCEPT ![p] = "transaction"]
  /\ locals' = [locals EXCEPT ![p].shouldInsert = existingItemRSEmpty(store, locals[p].arg)]
  /\ UNCHANGED << store, lastOp, keyMap >>
  /\ ConcUnchanged

\* The transaction of _setRecord (541-543) commits and the read back is
\* issued, or it fails, rolls back and setRecordAsync throws.
setRecordAsyncTransaction(p) ==
  /\ pc[p] = "transaction"
  /\ LET record == locals[p].arg
         tx == Transaction(store, _setRecord(record, locals[p].shouldInsert), 0)
     IN  /\ store' = tx.s
         /\ IF tx.ok
            THEN /\ pc' = [pc EXCEPT ![p] = "readRow"]
                 /\ locals' = [q \in Callers |->
                                 IF Reading(locals[q], IdentityOf(record))
                                 THEN [locals[q] EXCEPT
                                         !.versions = @ \cup {getRecord(tx.s, IdentityOf(record))}]
                                 ELSE locals[q]]
                 /\ UNCHANGED lastOp
            ELSE /\ pc' = [pc EXCEPT ![p] = "idle"]
                 /\ locals' = [locals EXCEPT ![p] = NoLocals]
                 /\ lastOp' = [op |-> "setRecordAsync", arg |-> record, ok |-> FALSE,
                               result |-> Undefined]
  /\ UNCHANGED keyMap
  /\ ConcUnchanged

\* getRecordAsync is called on an open cache (368-373): openDB returns the
\* connection, the SELECT of the row is issued.
getRecordAsyncCalled(p, identity) ==
  /\ _db # None
  /\ pc[p] = "idle"
  /\ pc' = [pc EXCEPT ![p] = "readRow"]
  /\ locals' = [locals EXCEPT ![p] = [op |-> "getRecordAsync", arg |-> identity,
                                      shouldInsert |-> FALSE, row |-> Undefined,
                                      versions |-> {getRecord(store, identity)}]]
  /\ UNCHANGED << store, lastOp, keyMap >>
  /\ ConcUnchanged

\* The SELECT of the row answers (370-374): with one row _parseRecordFromDb
\* goes on to the SELECT of the relationships, with none the call resolves
\* with undefined.  In setRecordAsync this is the read back (544).
RowRead(p) ==
  /\ pc[p] = "readRow"
  /\ LET identity == IF locals[p].op = "setRecordAsync"
                     THEN IdentityOf(locals[p].arg) ELSE locals[p].arg
         res == { r \in store.rows : r.table = identity.type /\ r.id = identity.id }
     IN  IF Cardinality(res) = 1
         THEN /\ pc' = [pc EXCEPT ![p] = "readRelationships"]
              /\ locals' = [locals EXCEPT ![p].row = CHOOSE r \in res : TRUE]
              /\ UNCHANGED lastOp
         ELSE /\ pc' = [pc EXCEPT ![p] = "idle"]
              /\ locals' = [locals EXCEPT ![p] = NoLocals]
              /\ lastOp' = [op |-> locals[p].op, arg |-> locals[p].arg, ok |-> TRUE,
                            result |-> Undefined, versions |-> locals[p].versions]
  /\ UNCHANGED << store, keyMap >>
  /\ ConcUnchanged

\* The SELECT of the relationships answers (363, 495-530): the record is
\* made of the row read before and of the relationships stored now, it goes
\* to the keyMap and the call resolves.
RelationshipsReadStep(p) ==
  /\ pc[p] = "readRelationships"
  /\ LET recordFound == _parseRecordFromDb(store, locals[p].row, locals[p].row.table)
     IN  /\ lastOp' = [op |-> locals[p].op, arg |-> locals[p].arg, ok |-> TRUE,
                       result |-> recordFound, versions |-> locals[p].versions]
         /\ keyMap' = pushRecord(keyMap, recordFound)
  /\ pc' = [pc EXCEPT ![p] = "idle"]
  /\ locals' = [locals EXCEPT ![p] = NoLocals]
  /\ UNCHANGED store
  /\ ConcUnchanged

\* An open cache over a new store, no call under way.
InitConc ==
  /\ _db = 1
  /\ _dbGenerating = FALSE
  /\ handlers = <<>>
  /\ pc = [p \in Callers |-> "idle"]
  /\ result = [p \in Callers |-> None]
  /\ steps = <<>>
  /\ inFlight = {}
  /\ schemaVersion = 1
  /\ connCount = 1
  /\ physOpens = 1
  /\ createPasses = 1
  /\ cycleFresh = TRUE
  /\ migLog = <<>>
  /\ failedSteps = {}
  /\ hookCalls = <<>>
  /\ orig = {}
  /\ origFormat = VERSION
  /\ restarts = 0
  /\ lastOp = NoOp
  /\ locals = [p \in Callers |-> NoLocals]
  /\ closedConns = {}
  /\ keyMap = NoKeyMap
  /\ transformLog = {}
  /\ store = createDB(EmptyStore, 1, 0).s

NextConc ==
  \E p \in Callers :
    \/ \E record \in ConcRecords : setRecordAsyncCalled(p, record)
    \/ setRecordAsyncProbed(p)
    \/ setRecordAsyncTransaction(p)
    \/ getRecordAsyncCalled(p, Jupiter)
    \/ RowRead(p)
    \/ RelationshipsReadStep(p)

SpecConc == InitConc /\ [][NextConc]_vars

\* ------------------------------------ closeDB, reopenDB and a new instance
\* The stages of the opener in which the creation pass, the internal
\* migration or the migrateDB hook is still ahead or running.
SchemaWork == { "probeVersionTable", "createDB", "readInternalVersion",
                "migrateTo1", "migrateTo2", "readVersion", "migrateDB" }

\* The connections that are physically open: those SQLite.openDatabase has
\* handed out and the driver has not been told to close.
OpenConns == (1..connCount) \ closedConns

\* Where a caller of closeDB goes on once closeDB has returned: reopenDB
\* calls openDB (171), deleteDB calls SQLite.deleteDatabase (306).
AfterClose(op) ==
  CASE op = "reopenDB" -> "reopening"
    [] op \in {"deleteDB", "reset"} -> "deleting"
    [] OTHER -> "resolved"

\* closeDB (162-167), called on its own or as the first half of reopenDB
\* (169-172), up to its await.  With a connection, this._db.close() is
\* issued: the driver refuses it when it no longer holds the database open
\* or, possibly, when a statement of the opener is running on it, and
\* releases the database otherwise.  Without a connection closeDB returns.
closeDBCalled(p, op) ==
  /\ pc[p] = "idle"
  /\ locals[p] = NoLocals
  /\ IF _db # None
     THEN /\ \E busy \in (IF \E q \in Callers : pc[q] \in SchemaWork
                          THEN BOOLEAN ELSE {FALSE}) :
               LET accepted == _db \notin closedConns /\ ~busy
               IN  /\ closedConns' = IF accepted THEN closedConns \cup {_db} ELSE closedConns
                   /\ locals' = [locals EXCEPT ![p] = [op |-> op, conn |-> _db,
                                                      ok |-> accepted]]
          /\ pc' = [pc EXCEPT ![p] = "closing"]
          /\ UNCHANGED lastOp
     ELSE /\ pc' = [pc EXCEPT ![p] = AfterClose(op)]
          /\ lastOp' = IF op # "closeDB" THEN lastOp
                       ELSE [op |-> "closeDB", ok |-> TRUE, wasOpen |-> FALSE]
          /\ UNCHANGED << locals, closedConns >>
  /\ UNCHANGED << store, _db, _dbGenerating, handlers, result, steps, inFlight,
                  schemaVersion, connCount, physOpens, createPasses, cycleFresh, migLog,
                  failedSteps, hookCalls, orig, origFormat, restarts, keyMap, transformLog >>

\* closeDB with this._db unset before the driver has answered, whatever it
\* answers.
closeSettles_UnsetsAnyway(p) ==
  /\ pc[p] = "closing"
  /\ _db' = None
  /\ pc' = [pc EXCEPT ![p] = AfterClose(locals[p].op)]
  /\ lastOp' = IF locals[p].op # "closeDB" THEN lastOp
               ELSE [op |-> "closeDB", ok |-> TRUE, wasOpen |-> TRUE]
  /\ locals' = [locals EXCEPT ![p] = NoLocals]
  /\ UNCHANGED << store, _dbGenerating, handlers, result, steps, inFlight, schemaVersion,
                  connCount, physOpens, createPasses, cycleFresh, migLog, failedSteps,
                  hookCalls, orig, origFormat, restarts, closedConns, keyMap, transformLog >>

\* this._db.close() settles (164-165): resolved, this._db is unset and
\* closeDB returns (reopenDB goes on to call openDB); rejected, closeDB
\* throws with this._db as it was.
closeSettles(p) ==
  /\ pc[p] = "closing"
  /\ IF locals[p].ok
     THEN /\ _db' = None
          /\ pc' = [pc EXCEPT ![p] = AfterClose(locals[p].op)]
          /\ lastOp' = IF locals[p].op # "closeDB" THEN lastOp
                       ELSE [op |-> "closeDB", ok |-> TRUE, wasOpen |-> TRUE]
     ELSE /\ pc' = [pc EXCEPT ![p] = "rejected"]
          /\ lastOp' = [op |-> locals[p].op, ok |-> FALSE, wasOpen |-> TRUE,
                        conn |-> locals[p].conn]
          /\ UNCHANGED _db
  /\ locals' = IF locals[p].ok /\ AfterClose(locals[p].op) = "deleting"
               THEN locals ELSE [locals EXCEPT ![p] = NoLocals]
  /\ UNCHANGED << store, _dbGenerating, handlers, result, steps, inFlight, schemaVersion,
                  connCount, physOpens, createPasses, cycleFresh, migLog, failedSteps,
                  hookCalls, orig, origFormat, restarts, closedConns, keyMap, transformLog >>

\* A statement of the opener on a connection that has been closed under it
\* fails, and openDB throws.
StatementOnClosed(p) ==
  /\ pc[p] \in SchemaWork
  /\ connCount \in closedConns
  /\ pc' = [pc EXCEPT ![p] = "rejected"]
  /\ UNCHANGED << store, _db, _dbGenerating, handlers, result, steps, inFlight,
                  schemaVersion, connCount, physOpens, createPasses, cycleFresh, migLog,
                  failedSteps, hookCalls, orig, origFormat, restarts, lastOp,
                  locals, closedConns, keyMap, transformLog >>

\* A new cache over a namespace that holds nothing.
InitLife ==
  /\ Constructed
  /\ schemaVersion = 1
  /\ orig = {}
  /\ origFormat = VERSION
  /\ store = EmptyStore

NextLife ==
  \/ \E p \in Callers :
       \/ openDB(p)
       \/ OpenDatabaseResolves(p)
       \/ OpenDatabaseRejects(p)
       \/ connCount \notin closedConns /\ ProbeVersionTable(p)
       \/ connCount \notin closedConns /\ CreateDB(p)
       \/ connCount \notin closedConns /\ ReadInternalVersion(p)
       \/ connCount \notin closedConns /\ ReadVersion(p)
       \/ StatementOnClosed(p)
       \/ Finish(p)
       \/ \E op \in {"closeDB", "reopenDB"} : closeDBCalled(p, op)
       \/ closeSettles(p)

SpecLife == InitLife /\ [][NextLife]_vars

\* ------------------------------- deleteDB, reset, calls one after the other
\* No call is under way.
Quiet == \A q \in Callers : pc[q] = "idle" /\ locals[q] = NoLocals

\* A call that has settled is taken by its caller, who may call again.
Return(p) ==
  /\ pc[p] \in {"resolved", "rejected"}
  /\ locals[p] = NoLocals
  /\ pc' = [pc EXCEPT ![p] = "idle"]
  /\ result' = [result EXCEPT ![p] = None]
  /\ UNCHANGED << store, _db, _dbGenerating, handlers, steps, inFlight, schemaVersion,
                  connCount, physOpens, createPasses, cycleFresh, migLog, failedSteps,
                  hookCalls, orig, origFormat, restarts, lastOp,
                  locals, closedConns, keyMap, transformLog >>

\* deleteDB (303-307), called on its own or by reset (78-83), up to the
\* await of its openDB.
deleteDBCalled(p, op) ==
  /\ pc[p] = "idle"
  /\ locals[p] = NoLocals
  /\ LET c == openDBCalls([_db |-> _db, _dbGenerating |-> _dbGenerating,
                           handlers |-> handlers, pc |-> pc, result |-> result,
                           physOpens |-> physOpens, inFlight |-> inFlight], <<p>>)
     IN  /\ _dbGenerating' = c._dbGenerating
         /\ handlers' = c.handlers
         /\ pc' = c.pc
         /\ result' = c.result
         /\ physOpens' = c.physOpens
         /\ inFlight' = c.inFlight
  /\ locals' = [locals EXCEPT ![p] =
                  [op |-> op, conn |-> None, ok |-> TRUE, wasOpen |-> _db # None,
                   hadRecords |-> store.rows # {}]]
  /\ UNCHANGED << store, _db, steps, schemaVersion, connCount, createPasses, cycleFresh,
                  migLog, failedSteps, hookCalls, orig, origFormat, restarts, lastOp,
                  closedConns, keyMap, transformLog >>

\* deleteDB that goes from its openDB straight to SQLite.deleteDatabase.
deleteDBOpened_NoClose(p) ==
  /\ pc[p] = "resolved"
  /\ locals[p].op \in {"deleteDB", "reset"}
  /\ pc' = [pc EXCEPT ![p] = "deleting"]
  /\ UNCHANGED << store, _db, _dbGenerating, handlers, result, steps, inFlight,
                  schemaVersion, connCount, physOpens, createPasses, cycleFresh, migLog,
                  failedSteps, hookCalls, orig, origFormat, restarts, lastOp,
                  locals, closedConns, keyMap, transformLog >>

\* The openDB of deleteDB has resolved (304): closeDB is called (305) and,
\* with a connection, issues its close; without one deleteDB goes on to
\* SQLite.deleteDatabase.
deleteDBOpened(p) ==
  /\ pc[p] = "resolved"
  /\ locals[p].op \in {"deleteDB", "reset"}
  /\ IF _db # None
     THEN /\ pc' = [pc EXCEPT ![p] = "closing"]
          /\ locals' = [locals EXCEPT ![p].conn = _db, ![p].ok = _db \notin closedConns]
          /\ closedConns' = closedConns \cup {_db}
     ELSE /\ pc' = [pc EXCEPT ![p] = "deleting"]
          /\ UNCHANGED << locals, closedConns >>
  /\ UNCHANGED << store, _db, _dbGenerating, handlers, result, steps, inFlight,
                  schemaVersion, connCount, physOpens, createPasses, cycleFresh, migLog,
                  failedSteps, hookCalls, orig, origFormat, restarts, lastOp,
                  keyMap, transformLog >>

\* SQLite.deleteDatabase resolves (306): the physical store is gone, and
\* deleteDB returns.  lastOp keeps whether the cache was open and held
\* records when deleteDB was called, the connections opened so far, and the
\* same of the call before when that was a deleteDB too.
deleteDatabaseResolves(p) ==
  /\ pc[p] = "deleting"
  /\ store' = EmptyStore
  /\ pc' = [pc EXCEPT ![p] = "resolved"]
  /\ lastOp' = [op |-> locals[p].op, ok |-> TRUE, wasOpen |-> locals[p].wasOpen,
                hadRecords |-> locals[p].hadRecords, conns |-> connCount,
                previous |-> IF lastOp.op \in {"deleteDB", "reset"}
                             THEN << lastOp.wasOpen, lastOp.hadRecords >> ELSE <<>>]
  /\ locals' = [locals EXCEPT ![p] = NoLocals]
  /\ UNCHANGED << _db, _dbGenerating, handlers, result, steps, inFlight, schemaVersion,
                  connCount, physOpens, createPasses, cycleFresh, migLog, failedSteps,
                  hookCalls, orig, origFormat, restarts, closedConns, keyMap, transformLog >>

\* Calls made one after the other on a store that works: each is started
\* when no other is under way, and no statement fails.  Records are written
\* through the first cache instance; the instances made after it are closed
\* caches on the same namespace, which read.
NextSeq ==
  \/ \E p \in Callers :
       \/ Quiet /\ (connCount < MaxConns \/ _db # None) /\ openDB(p)
       \/ OpenDatabaseResolves(p)
       \/ ProbeVersionTable(p)
       \/ CreateDB(p) /\ pc'[p] = "finish"
       \/ ReadInternalVersion(p)
       \/ ReadVersion(p)
       \/ Finish(p)
       \/ Return(p)
       \/ Quiet /\ closeDBCalled(p, "closeDB")
       \/ closeSettles(p)
       \/ \E op \in {"deleteDB", "reset"} :
            Quiet /\ (connCount < MaxConns \/ _db # None) /\ deleteDBCalled(p, op)
       \/ deleteDBOpened(p)
       \/ deleteDatabaseResolves(p)
  \/ Quiet /\ restarts = 0 /\ setRecordAsync(JupiterWithMoon)
  \/ Quiet /\ getRecordAsync(Jupiter)
  \/ /\ \A q \in Callers : pc[q] \in {"idle", "resolved"} /\ locals[q] = NoLocals
     /\ _db = None
     /\ NewCache
     /\ schemaVersion' = schemaVersion

SpecSeq == InitLife /\ [][NextSeq]_vars

\* ------------------------------------------------- rows of any content
\* A text that JSON.parse rejects.
Unparseable == [k |-> "text", v |-> {}]

\* What the attributes or keys column of a row may hold: NULL, a text that
\* is no JSON, the JSON of an empty map, the JSON of a map.
AttributeBlobs == { NULL, Unparseable, JSONstringify({}), JSONstringify({<<"name", "Jupiter">>}) }

KeyBlobs == { NULL, Unparseable, JSONstringify({}), JSONstringify({<<"remoteId", "j">>}) }

\* An open cache over a store that holds the row of jupiter, its columns of
\* any content, with or without an edge to europa.
InitDecode ==
  /\ _db = 1
  /\ _dbGenerating = FALSE
  /\ handlers = <<>>
  /\ pc = [p \in Callers |-> IF p = 1 THEN "resolved" ELSE "idle"]
  /\ result = [p \in Callers |-> IF p = 1 THEN 1 ELSE None]
  /\ steps = <<>>
  /\ inFlight = {}
  /\ schemaVersion = 1
  /\ connCount = 1
  /\ physOpens = 1
  /\ createPasses = 0
  /\ cycleFresh = FALSE
  /\ migLog = <<>>
  /\ failedSteps = {}
  /\ hookCalls = <<>>
  /\ orig = {}
  /\ origFormat = VERSION
  /\ restarts = 0
  /\ lastOp = NoOp
  /\ locals = [p \in Callers |-> NoLocals]
  /\ closedConns = {}
  /\ keyMap = NoKeyMap
  /\ transformLog = {}
  /\ \E attributes \in AttributeBlobs, keys \in KeyBlobs,
        edges \in { {}, {Edge("jupiter", "planet", "moons", "europa", "moon")} } :
       store = [createDB(EmptyStore, 1, 0).s EXCEPT
                  !.rows = {[table |-> "planet", id |-> "jupiter",
                             attributes |-> attributes, keys |-> keys]},
                  !.edges = edges]

\* The records written over such a row: the attributes alone, the keys
\* alone.
DecodeRecords ==
  { Rec("planet", "jupiter", Some({<<"name", "Jove">>}), Absent, Absent),
    Rec("planet", "jupiter", Absent, Some({<<"remoteId", "j2">>}), Absent) }

NextDecode ==
  \/ \E identity \in ReadIdentities : getRecordAsync(identity)
  \/ \E record \in DecodeRecords : setRecordAsync(record)
  \/ removeRecordAsync(Jupiter)

SpecDecode == InitDecode /\ [][NextDecode]_vars

\* ---------------------------------------------------------------- claims
\* The cache is Open: it holds a connection and no open is in flight.
IsOpen == _db # None /\ ~_dbGenerating

InternalVersionOf(s) ==
  IF s.internalTable.exists /\ Len(s.internalTable.rows) > 0
  THEN s.internalTable.rows[1] ELSE 0

\* C1: however many callers invoke openDB on a closed cache, one cache
\* instance issues at most one SQLite.openDatabase call and at most one
\* createDB pass, and once the cache is Open exactly one open call was issued
\* and, on a store that had no version table, exactly one createDB pass ran.
C1_SingleFlightOpen ==
  /\ physOpens <= 1
  /\ createPasses <= 1
  /\ IsOpen => /\ physOpens = 1
               /\ createPasses = IF cycleFresh THEN 1 ELSE 0

\* Two callers arrived while the open of a fresh store was in flight, and the
\* open has completed.
C1_Witness ==
  /\ IsOpen
  /\ cycleFresh
  /\ createPasses = 1
  /\ Cardinality(inFlight) >= 2

\* C2: once the in-flight open has completed, every caller that invoked
\* openDB while it was in flight has been resolved, with the connection the
\* opener got.
C2_WaitersAllWoken ==
  IsOpen => \A p \in inFlight : pc[p] = "resolved" /\ result[p] = _db

\* C3: no openDB call has resolved with a connection while the creation pass
\* or the migration of the in-flight open is still unfinished.
C3_NoConnectionBeforeSchemaReady ==
  \A p \in Callers :
    (pc[p] = "resolved" /\ result[p] # None) => \A q \in Callers : pc[q] \notin SchemaWork

\* The edges a record's relationships describe, as getInverseRelationshipsAsync
\* reports them for their targets.
InverseEntriesOf(r) ==
  IF r.relationships = Absent THEN {}
  ELSE UNION { { [record |-> i, relationship |-> x[1], relatedRecord |-> IdentityOf(r)] :
                   i \in x[2].ids } : x \in r.relationships.v }

\* C6: when openDB has completed on a store that was persisted in internal
\* format 0 or 1, the stored internal version is VERSION (one row), every
\* record the store held is returned by getRecordAsync with the same
\* attributes, keys and relationships, getInverseRelationshipsAsync reports
\* every edge it held, and no relationships_* table is left.
C6_MigrationPreservesData ==
  (IsOpen /\ origFormat < VERSION) =>
    /\ store.internalTable = [exists |-> TRUE, rows |-> <<VERSION>>]
    /\ \A r \in orig :
         /\ getRecord(store, IdentityOf(r)) = r
         /\ \A x \in InverseEntriesOf(r) : x \in getInverseRelationships(store, x.record)
    /\ store.legacyTables = {}
    /\ store.legacyRels = {}

\* The physical layout that goes with a stored internal version.
LayoutOf(s) ==
  IF s.relTable /\ s.legacyTables = {} /\ \A m \in Models : s.modelTables[m] = "blob"
  THEN 2
  ELSE IF ~s.relTable /\ \A m \in Models : s.modelTables[m] = "blob" THEN 1
  ELSE 0

\* C7: in every state the stored internal version is k only if the store is
\* in the layout of format k (the rewrite of step k committed), and every
\* migration step that threw left the store, data and version, as it was.
C7_VersionOnlyWithRewrite ==
  /\ store.versionTable.exists => InternalVersionOf(store) = LayoutOf(store)
  /\ store.versionTable.exists => InternalVersionOf(store) = origFormat + Len(migLog)
  /\ \A f \in failedSteps : f.after = f.before

\* Step 1->2 has thrown on a store that step 0->1 had rewritten.
C7_Witness ==
  /\ \E f \in failedSteps : f.step = 2 /\ f.before.rows # {}
  /\ migLog = <<1>>
  /\ InternalVersionOf(store) = 1

\* C8: the steps committed on a store over its life are, in order, a prefix
\* of the steps from its original format up to VERSION (0: 1 then 2; 1: 2;
\* 2: none), every step that was attempted was the one following the stored
\* version, and once openDB has completed all of them are committed.
C8_StepsInOrder ==
  LET expected == [i \in 1..(VERSION - origFormat) |-> origFormat + i]
  IN  /\ Len(migLog) <= Len(expected)
      /\ \A i \in 1..Len(migLog) : migLog[i] = expected[i]
      /\ \A f \in failedSteps : f.step = InternalVersionOf(f.before) + 1
      /\ \A p \in Callers :
           /\ pc[p] = "migrateTo1" => InternalVersionOf(store) = 0
           /\ pc[p] = "migrateTo2" => InternalVersionOf(store) = 1
      /\ IsOpen => migLog = expected

\* A first cache instance committed step 0->1 and failed in step 1->2; a
\* second instance has completed the open.
C8_Witness ==
  /\ IsOpen
  /\ restarts = 1
  /\ origFormat = 0
  /\ migLog = <<1, 2>>
  /\ \E f \in failedSteps : f.step = 2

\* ------------------------------------------------ user schema version
\* The stored user schema version.
StoredVersion(s) == s.versionTable.rows[1]

\* The migrateDB invocations an open of the store s has to make.
HookCallsDue(s) ==
  IF StoredVersion(s) # schemaVersion
  THEN << <<StoredVersion(s), schemaVersion>> >> ELSE <<>>

\* The reopen that the upgrade of the schema from lastOp.arg to the next
\* version started has completed.
UpgradeReopened ==
  /\ IsOpen
  /\ lastOp.op = "upgrade"
  /\ lastOp.wasOpen
  /\ schemaVersion = lastOp.arg + 1

\* C18 as stated, its last part: the reopen after the upgrade of an open
\* cache from version v to v + 1 invokes migrateDB with (v, v + 1).
C18_UpgradeHookArgs ==
  UpgradeReopened => hookCalls = << <<lastOp.arg, lastOp.arg + 1>> >>

\* C18: an open of an existing store whose stored user schema version
\* differs from the schema's invokes migrateDB exactly once, with
\* (stored version, schema version), before it completes, and an open that
\* finds them equal, or creates the store, does not invoke it; the reopen
\* after the upgrade of an open cache from v to v + 1 invokes it with
\* (v, v + 1) when the stored version is v.
C18_HookOncePerMismatch ==
  /\ Len(hookCalls) <= 1
  /\ \A p \in Callers :
       /\ pc[p] = "migrateDB" => hookCalls = <<>> /\ StoredVersion(store) # schemaVersion
       /\ pc[p] = "finish" => hookCalls = HookCallsDue(store)
  /\ IsOpen => hookCalls = HookCallsDue(store)
  /\ (UpgradeReopened /\ StoredVersion(store) = lastOp.arg)
       => hookCalls = << <<lastOp.arg, lastOp.arg + 1>> >>

\* The schema of an open cache created at version 1 was upgraded to 2; the
\* reopen has completed and has invoked migrateDB with (1, 2).
C18_Witness ==
  /\ IsOpen
  /\ restarts = 1
  /\ origFormat = VERSION
  /\ lastOp.op = "upgrade"
  /\ lastOp.wasOpen
  /\ lastOp.arg = 1
  /\ schemaVersion = 2
  /\ StoredVersion(store) = 1
  /\ hookCalls = << <<1, 2>> >>

\* C19: the default migrateDB leaves the store as it is and lets openDB go
\* on to its completion, so that the cache opens with the stored user schema
\* version still different from the schema's.
C19_DefaultHookChangesNothing ==
  /\ [][ \A p \in Callers :
           pc[p] = "migrateDB" =>
             /\ store' = store
             /\ pc'[p] \in {"migrateDB", "finish", "idle"} ]_vars
  /\ [](\A p \in Callers :
          (pc[p] = "resolved" /\ hookCalls # <<>>) =>
            /\ result[p] = _db
            /\ _db # None
            /\ StoredVersion(store) # schemaVersion
            /\ hookCalls = << <<StoredVersion(store), schemaVersion>> >>)

\* A store migrated from format 0 with its three records was opened under a
\* newer schema version: the open resolved, the records are all there.
C19_Witness ==
  /\ IsOpen
  /\ hookCalls # <<>>
  /\ orig = LegacyFixture
  /\ \A r \in orig : getRecord(store, IdentityOf(r)) = r
  /\ StoredVersion(store) = 1
  /\ \E p \in Callers : pc[p] = "resolved" /\ result[p] = _db

\* ------------------------------------------------------- record claims
\* An empty attributes or keys object read as no object at all.
NormMap(x) == IF x = Some({}) THEN Absent ELSE x

\* A relationships object without its empty has-many lists, read as no object
\* at all when nothing is left.
NormRelationships(x) ==
  IF x = Absent THEN Absent
  ELSE LET kept == { p \in x.v : ~(p[2].shape = "many" /\ p[2].ids = {}) }
       IN  IF kept = {} THEN Absent ELSE Some(kept)

EdgesOf(s, i) == { e \in s.edges : e.source_id = i.id /\ e.source_table = i.type }

\* C5 as stated: after removeRecordAsync(i), or removeRecordsAsync of a list
\* containing i, the edge table holds no edge whose source is i.
C5_RemoveDeletesSourceEdges ==
  /\ lastOp.op = "removeRecordAsync" => EdgesOf(store, lastOp.arg) = {}
  /\ lastOp.op = "removeRecordsAsync" =>
       \A n \in 1..Len(lastOp.arg) : EdgesOf(store, lastOp.arg[n]) = {}

\* The edges r.relationships describes: one per target, and a null-target
\* edge for an explicit null has-one.
EdgesDescribed(r) ==
  IF r.relationships = Absent THEN {}
  ELSE UNION { IF p[2].shape = "null"
               THEN { Edge(r.id, r.type, p[1], "null", "null") }
               ELSE { Edge(r.id, r.type, p[1], i.id, i.type) : i \in p[2].ids } :
               p \in r.relationships.v }

\* C9: after setRecordAsync(r) the edges whose source is r are exactly the
\* ones r.relationships describes; no earlier edge of r survives unless r
\* lists it again.
C9_EdgesExactlyDescribed ==
  lastOp.op = "setRecordAsync" =>
    EdgesOf(store, IdentityOf(lastOp.arg)) = EdgesDescribed(lastOp.arg)

\* moons {io, europa} was replaced by [europa, callisto]: io is gone,
\* callisto is there, europa still is.
C9_Witness ==
  /\ lastOp.op = "setRecordAsync"
  /\ lastOp.before = Some({ <<"moons", DataMany({Identity("moon", "io"), Europa})>> })
  /\ lastOp.arg.relationships =
       Some({ <<"moons", DataMany({Europa, Identity("moon", "callisto")})>> })
  /\ EdgesOf(store, Jupiter) =
       { Edge("jupiter", "planet", "moons", "europa", "moon"),
         Edge("jupiter", "planet", "moons", "callisto", "moon") }

\* The has-one relationships a type declares.
HasOneNames(type) == { d.name : d \in { x \in RelationshipsOf(type) : x.type = "hasOne" } }

\* The data a relationships object holds under a name (Absent when it has
\* no such entry).
DataUnder(rels, name) ==
  IF rels = Absent \/ ~(\E p \in rels.v : p[1] = name) THEN Absent
  ELSE (CHOOSE p \in rels.v : p[1] = name)[2]

RowOf(s, identity) ==
  CHOOSE r \in s.rows : r.table = identity.type /\ r.id = identity.id

\* C13: setRecordAsync on an existing record rewrites only the columns the
\* incoming record carries: without attributes the stored attributes column
\* is unchanged, without keys the stored keys column is unchanged, and a
\* column the record carries holds the new value.
C13_PartialColumnRewrite ==
  [][ (lastOp'.op = "setRecordAsync" /\ ~existingItemRSEmpty(store, lastOp'.arg))
        => LET record == lastOp'.arg
               old == RowOf(store, IdentityOf(record))
               new == RowOf(store', IdentityOf(record))
           IN  /\ ~existingItemRSEmpty(store', record)
               /\ new.attributes = IF record.attributes = Absent THEN old.attributes
                                    ELSE JSONstringify(record.attributes.v)
               /\ new.keys = IF record.keys = Absent THEN old.keys
                              ELSE JSONstringify(record.keys.v) ]_vars

\* A record with keys and no attributes was set over a row with attributes,
\* and the attributes are still read back.
C13_Witness ==
  /\ lastOp.op = "setRecordAsync"
  /\ lastOp.arg.attributes = Absent
  /\ lastOp.arg.keys # Absent
  /\ lastOp.result # Undefined
  /\ lastOp.result.attributes = Some({<<"name", "Jupiter">>})
  /\ RowOf(store, Jupiter).keys = JSONstringify(lastOp.arg.keys.v)

\* C16: removeRecordAsync of an identity that has no stored row (removed
\* before, or never set) resolves with undefined and leaves the store as it
\* is; and after any removeRecordAsync the identity has no stored row, so a
\* second removal is such a call.
C16_IdempotentRemoval ==
  [][ lastOp'.op = "removeRecordAsync"
        => /\ lastOp'.ok
           /\ getRecord(store', lastOp'.arg) = Undefined
           /\ getRecord(store, lastOp'.arg) = Undefined
                 => lastOp'.result = Undefined /\ store' = store ]_vars

\* jupiter, set and removed before (its edges are still stored), has been
\* removed again.
C16_Witness ==
  /\ lastOp.op = "removeRecordAsync"
  /\ lastOp.arg = Jupiter
  /\ lastOp.ok
  /\ lastOp.result = Undefined
  /\ EdgesOf(store, Jupiter) # {}

\* ------------------------------------------- inverse and batch claims
\* The identities of a list that have a stored row, in the list's order.
RECURSIVE StoredAmong(_, _)
StoredAmong(s, identities) ==
  IF identities = <<>> THEN <<>>
  ELSE (IF \E r \in s.rows : r.table = Head(identities).type /\ r.id = Head(identities).id
        THEN << Head(identities) >> ELSE <<>>)
       \o StoredAmong(s, Tail(identities))

\* C17: getRecordAsync of an identity with no stored row resolves with
\* undefined, and getRecordsAsync(identities) resolves with exactly the
\* records of the identities that have a row, in the order of the
\* identities, none of them undefined.
C17_NotFoundIsAValue ==
  /\ lastOp.op = "getRecordAsync" =>
       /\ lastOp.ok
       /\ (lastOp.result = Undefined) <=> (StoredAmong(store, <<lastOp.arg>>) = <<>>)
  /\ lastOp.op = "getRecordsAsync" =>
       /\ lastOp.ok
       /\ \A i \in 1..Len(lastOp.result) : lastOp.result[i] # Undefined
       /\ [i \in 1..Len(lastOp.result) |-> IdentityOf(lastOp.result[i])]
            = StoredAmong(store, lastOp.arg)
       /\ \A i \in 1..Len(lastOp.result) :
            lastOp.result[i] = getRecord(store, StoredAmong(store, lastOp.arg)[i])

\* getRecordsAsync([jupiter, europa]) while only europa is stored resolved
\* with europa alone.
C17_Witness ==
  /\ lastOp.op = "getRecordsAsync"
  /\ lastOp.arg = << Jupiter, Europa >>
  /\ lastOp.ok
  /\ Len(lastOp.result) = 1
  /\ IdentityOf(lastOp.result[1]) = Europa

\* The entries the stored edges with a given target stand for.
EntriesStoredFor(s, target) ==
  { RecordRelationshipIdentity(target, e.relation_name, Identity(e.source_table, e.source_id)) :
      e \in { x \in s.edges : x.target_id = target.id /\ x.target_table = target.type } }

\* C11: for every target t, getInverseRelationshipsAsync(t) reports exactly
\* the sources and relationship names of the stored edges whose target is t
\* (written by setRecordAsync of the source or by
\* addInverseRelationshipsAsync, and not removed since), and [] when there
\* is none.
C11_InverseConsistency ==
  \A t \in InverseIdentities :
    getInverseRelationships(store, t) = EntriesStoredFor(store, t)

\* The declared cardinality of an edge's relationship ("none" when its
\* source type declares no relationship of that name).
CardinalityOf(e) ==
  LET ds == { d \in RelationshipsOf(e.source_table) : d.name = e.relation_name }
  IN  IF ds = {} THEN "none" ELSE (CHOOSE d \in ds : TRUE).type

\* C12: no edge of a has-many relationship has a null target, and no two
\* edges of a has-one relationship have the same source and relation name.
C12_EdgeTableInvariant ==
  \A e \in store.edges :
    /\ CardinalityOf(e) = "hasMany" => e.target_id # "null"
    /\ CardinalityOf(e) = "hasOne" =>
         \A f \in store.edges :
           (f.source_id = e.source_id /\ f.source_table = e.source_table
              /\ f.relation_name = e.relation_name) => f = e

\* C14: addInverseRelationshipsAsync of entries whose edges are all stored
\* already resolves and leaves the store as it is.
C14_AddIsIdempotent ==
  [][ (/\ lastOp'.op = "addInverseRelationshipsAsync"
       /\ \A i \in 1..Len(lastOp'.arg) : EdgeOfEntry(lastOp'.arg[i]) \in store.edges)
        => lastOp'.ok /\ store' = store ]_vars

\* C15: removeInverseRelationshipsAsync of entries none of whose edges is
\* stored resolves and leaves the store as it is; in general it resolves
\* and removes exactly the edges of its entries.
C15_RemoveIsIdempotent ==
  [][ lastOp'.op = "removeInverseRelationshipsAsync"
        => /\ lastOp'.ok
           /\ store' = [store EXCEPT !.edges =
                          @ \ { EdgeOfEntry(lastOp'.arg[i]) : i \in 1..Len(lastOp'.arg) }]
           /\ (\A i \in 1..Len(lastOp'.arg) : EdgeOfEntry(lastOp'.arg[i]) \notin store.edges)
                => store' = store ]_vars

\* europa -planet-> earth was removed while only europa -planet-> jupiter
\* was stored, and that edge is still there.
C15_Witness ==
  /\ lastOp.op = "removeInverseRelationshipsAsync"
  /\ lastOp.arg = << RecordRelationshipIdentity(Earth, "planet", Europa) >>
  /\ lastOp.before = {}
  /\ lastOp.ok
  /\ store.edges = { Edge("europa", "moon", "planet", "jupiter", "planet") }

\* C20: a write that rejects leaves the store as it was, and the writes
\* with a statement that must fail do reject: setRecordsAsync of a list that
\* names a record without a row twice (the second INSERT repeats the id) and
\* addInverseRelationshipsAsync of a list with an entry whose edge is stored
\* or that holds an entry twice.
C20_BatchesAllOrNothing ==
  [][ /\ (lastOp'.op # "none" /\ ~lastOp'.ok) => store' = store
      /\ (/\ lastOp'.op = "setRecordsAsync"
          /\ \E i, j \in 1..Len(lastOp'.arg) :
               /\ i < j
               /\ IdentityOf(lastOp'.arg[i]) = IdentityOf(lastOp'.arg[j])
               /\ existingItemRSEmpty(store, lastOp'.arg[i]))
           => ~lastOp'.ok
      /\ (/\ lastOp'.op = "addInverseRelationshipsAsync"
          /\ \E i, j \in 1..Len(lastOp'.arg) :
               \/ EdgeOfEntry(lastOp'.arg[i]) \in store.edges
               \/ i < j /\ lastOp'.arg[i] = lastOp'.arg[j])
           => ~lastOp'.ok ]_vars

\* setRecordsAsync([jupiter, jupiter]) on a store without jupiter rejected:
\* the row and the edge its first half had written are not there.
C20_Witness ==
  /\ lastOp.op = "setRecordsAsync"
  /\ lastOp.arg = << JupiterWithMoon, JupiterWithMoon >>
  /\ ~lastOp.ok
  /\ getRecord(store, Jupiter) = Undefined
  /\ EdgesOf(store, Jupiter) = {}

\* ------------------------------------------- relationship names, keyMap
\* C27: after setRecordAsync(r) the record read back holds under every
\* relationship name its type declares exactly the data r holds under that
\* name, also when two names have the same target type, the record's own
\* type, or the same target record.
C27_RelationshipsByName ==
  (lastOp.op = "setRecordAsync" /\ lastOp.ok) =>
    \A d \in RelationshipsOf(lastOp.arg.type) :
      DataUnder(getRecord(store, IdentityOf(lastOp.arg)).relationships, d.name)
        = DataUnder(lastOp.arg.relationships, d.name)

\* mercury was set with previous venus and no next, and reads back so.
C27_Witness ==
  /\ lastOp.op = "setRecordAsync"
  /\ lastOp.ok
  /\ lastOp.arg.relationships = Some({<<"previous", DataOne(Venus)>>})
  /\ lastOp.before = Some({<<"previous", DataOne(Earth)>>, <<"next", DataOne(Venus)>>})
  /\ getRecord(store, Mercury).relationships = Some({<<"previous", DataOne(Venus)>>})

\* Every key of a record maps to the record's id.
KeysMapped(km, record) ==
  record.keys # Absent =>
    \A k \in record.keys.v :
      [type |-> record.type, key |-> k[1], value |-> k[2], id |-> record.id] \in km.map

\* C28: when setRecordAsync, setRecordsAsync, getRecordAsync or
\* getRecordsAsync has completed, the keyMap maps every key of each stored
\* record the call named to that record's id.
C28_KeysMapped ==
  /\ (lastOp.op = "setRecordAsync" /\ lastOp.ok) =>
       KeysMapped(keyMap, getRecord(store, IdentityOf(lastOp.arg)))
  /\ (lastOp.op = "setRecordsAsync" /\ lastOp.ok) =>
       \A i \in 1..Len(lastOp.arg) :
         KeysMapped(keyMap, getRecord(store, IdentityOf(lastOp.arg[i])))
  /\ (lastOp.op = "getRecordAsync" /\ lastOp.result # Undefined) =>
       KeysMapped(keyMap, lastOp.result)
  /\ lastOp.op = "getRecordsAsync" =>
       \A i \in 1..Len(lastOp.result) : KeysMapped(keyMap, lastOp.result[i])

\* mercury, stored with its key, was read back while the keyMap was empty
\* (reset after the write), and its key is mapped again.
C28_Witness ==
  /\ keyMap.configured
  /\ lastOp.op = "getRecordAsync"
  /\ lastOp.arg = Mercury
  /\ lastOp.mapped = {}
  /\ lastOp.result # Undefined
  /\ lastOp.result.keys = Some({<<"remoteId", "p1">>})
  /\ keyMap.map = { [type |-> "planet", key |-> "remoteId", value |-> "p1", id |-> "mercury"] }

\* ------------------------------------------------------- the source
\* C29: _push and _sync of a transform whose id is in the transform log
\* patch nothing, leave the store and the log as they are, and _push returns
\* []; of a transform that is not logged, they patch its operations once,
\* log its id, and _push returns [transform].
C29_AppliedOncePerId ==
  [][ lastOp'.op \in {"_push", "_sync"} =>
        IF lastOp'.arg.id \in transformLog
        THEN /\ lastOp'.patched = <<>>
             /\ store' = store
             /\ transformLog' = transformLog
             /\ lastOp'.op = "_push" => lastOp'.result = <<>>
        ELSE /\ lastOp'.ok
             /\ lastOp'.patched = << lastOp'.arg.operations >>
             /\ store' = patch(store, lastOp'.arg.operations).s
             /\ transformLog' = transformLog \cup {lastOp'.arg.id}
             /\ lastOp'.op = "_push" => lastOp'.result = << lastOp'.arg >> ]_vars

\* t1, which adds jupiter, was pushed again after jupiter had been removed:
\* nothing was returned and jupiter is still not stored.
C29_Witness ==
  /\ lastOp.op = "_push"
  /\ lastOp.arg.id = "t1"
  /\ lastOp.result = <<>>
  /\ "t1" \in transformLog
  /\ getRecord(store, Jupiter) = Undefined

\* The stages in which an openDB call is still running code of its own.
OpenInProgress == SchemaWork \cup { "openDatabase", "finish" }

\* C24: no openDB call is left pending for ever: whenever a caller waits on
\* the in-flight open, some caller is still carrying that open forward (and
\* will settle the waiters when it ends, whether it succeeds or throws).
C24_EveryCallSettles ==
  \A p \in Callers :
    pc[p] = "waiting" => \E q \in Callers : pc[q] \in OpenInProgress

\* Every stored record, as getRecordAsync reports it.
StoredRecords(s) == { _parseRecordFromDb(s, r, r.table) : r \in s.rows }

\* C30: a getRecordsAsync() call is never left pending with nothing ahead of
\* it: while it is outstanding, the open it awaits is still in progress or has
\* failed, or a per-type call whose openDB has resolved still has its read to
\* do, or every per-type call is done; and when it resolves, its result holds
\* exactly the stored records, each once.
C30_AllRecordsResolve ==
  /\ (\E p \in TypeCallers : locals[p].op = "getRecordsAsync") =>
       \/ \E p \in Callers : pc[p] \in OpenInProgress \cup {"rejected"}
       \/ \E p \in TypeCallers : pc[p] = "resolved" /\ ~locals[p].done
       \/ \A p \in TypeCallers : locals[p].done
  /\ (lastOp.op = "_getAllRecords" /\ lastOp.ok) =>
       /\ Range(lastOp.result) = StoredRecords(store)
       /\ Len(lastOp.result) = Cardinality(StoredRecords(store))

\* C21: a getRecordAsync call that has resolved returns the record as it was
\* stored at some moment between the call and its resolution: its attributes,
\* keys and relationships all belong to the state before a concurrent write
\* or all to the state after it.
C21_NoPartialRead ==
  lastOp.op = "getRecordAsync" => lastOp.result \in lastOp.versions

\* C22: a setRecordAsync call never fails because of another setRecordAsync
\* call for the same record that is in flight: every call that has settled
\* has resolved.
C22_ConcurrentSetsSucceed ==
  lastOp.op = "setRecordAsync" => lastOp.ok

\* C23: at most one connection is physically open at any time, and every
\* connection that is open is the one the cache holds in _db.
C23_SingleConnection ==
  /\ Cardinality(OpenConns) <= 1
  /\ OpenConns \subseteq {_db}

\* C23 witness: of two overlapping closeDB calls on the first connection the
\* driver refused the second, and that call has settled after a second
\* connection was opened, which is still the one in _db.
C23_Witness ==
  /\ connCount = 2
  /\ OpenConns = {2}
  /\ _db = 2
  /\ lastOp.op \in {"closeDB", "reopenDB"}
  /\ ~lastOp.ok
  /\ lastOp.conn = 1

\* The store as the creation pass leaves it: the tables, the versions, no
\* record and no relationship.
FreshStore == createDB(EmptyStore, schemaVersion, 0).s

\* C25: deleteDB and reset never fail, whether the cache was open or closed
\* and whether the call before was a deleteDB too; when one has completed
\* and no connection has been opened since, the cache holds no connection and
\* the store is gone; and the first connection opened afterwards is opened
\* on a store the creation pass has just made, with no record in it.
C25_DeleteIsRepeatable ==
  lastOp.op \in {"deleteDB", "reset"} =>
    /\ lastOp.ok
    /\ connCount = lastOp.conns => _db = None /\ store = EmptyStore
    /\ (connCount = lastOp.conns + 1 /\ IsOpen) => store = FreshStore

\* C25 witness: a deleteDB on a closed cache, right after a deleteDB on an
\* open cache that held records, has completed, and the cache has been
\* opened again on a fresh store.
C25_Witness ==
  /\ lastOp.op \in {"deleteDB", "reset"}
  /\ lastOp.ok
  /\ ~lastOp.wasOpen
  /\ lastOp.previous = << TRUE, TRUE >>
  /\ connCount = lastOp.conns + 1
  /\ IsOpen
  /\ store = FreshStore

\* A step of an openDB call that is under way.
OpenStep == \E p \in Callers : pc[p] \in OpenInProgress /\ pc'[p] # pc[p]

\* C26: the probe sends openDB to the creation pass exactly when the version
\* table is absent, and an open of a store that has its version table, the
\* versions matching, changes nothing in the store.
C26_CreationIffNew ==
  [][ /\ \A p \in Callers :
           (pc[p] = "probeVersionTable" /\ pc'[p] # pc[p]) =>
             (pc'[p] = "createDB" <=> ~store.versionTable.exists)
      /\ (OpenStep /\ store.versionTable.exists) =>
           (store' = store /\ createPasses' = createPasses) ]_vars

\* C26 witness: a new cache instance has opened the store an earlier one
\* wrote jupiter to and closed, without a creation pass, and getRecordAsync
\* has returned the record as it was written.
C26_Witness ==
  /\ restarts = 1
  /\ IsOpen
  /\ createPasses = 0
  /\ lastOp.op = "getRecordAsync"
  /\ lastOp.result = JupiterWithMoon

\* The edges whose target is the record i and whose source is another record.
EdgesInto(s, i) ==
  { e \in s.edges : /\ e.target_id = i.id /\ e.target_table = i.type
                    /\ ~(e.source_id = i.id /\ e.source_table = i.type) }

\* C31: a removeRecordAsync(i) step leaves every edge whose target is i and
\* whose source is another record as it was, and getInverseRelationshipsAsync(i)
\* returns after it what it returned before it.
C31_RemovalKeepsInverseEdges ==
  [][ lastOp'.op = "removeRecordAsync" =>
        /\ EdgesInto(store', lastOp'.arg) = EdgesInto(store, lastOp'.arg)
        /\ getInverseRelationships(store', lastOp'.arg)
             = getInverseRelationships(store, lastOp'.arg) ]_vars

\* C31 witness: a stored record that other records point to has been removed
\* and the edges into it are still there.
C31_Witness ==
  /\ lastOp.op = "removeRecordAsync"
  /\ lastOp.result # Undefined
  /\ getRecord(store, lastOp.arg) = Undefined
  /\ EdgesInto(store, lastOp.arg) # {}
  /\ getInverseRelationships(store, lastOp.arg) # {}

\* What getRecordAsync is to report for a column: nothing for NULL, for a
\* text that is no JSON and for an empty map, the map otherwise.
FieldOf(blob) ==
  IF blob.k = "json" /\ blob.v # {} THEN Some(blob.v) ELSE Absent

\* The stored row of an identity, as a set of zero or one row.
RowsOf(s, identity) ==
  { r \in s.rows : r.table = identity.type /\ r.id = identity.id }

RECURSIVE StoredOf(_, _)
StoredOf(s, identities) ==
  IF identities = <<>> THEN <<>>
  ELSE (IF RowsOf(s, Head(identities)) # {} THEN << Head(identities) >> ELSE <<>>)
       \o StoredOf(s, Tail(identities))

\* C33: a removeRecordAsync(i) step resolves with the record getRecordAsync(i)
\* would have returned before it (undefined when i is not stored), and a
\* removeRecordsAsync(list) step resolves with the records, as they were
\* before it, of exactly the identities of the list that were stored; none of
\* them is stored afterwards.
C33_RemovalReturnsPrior ==
  [][ /\ lastOp'.op = "removeRecordAsync" =>
           /\ lastOp'.ok
           /\ lastOp'.result = getRecord(store, lastOp'.arg)
           /\ RowsOf(store', lastOp'.arg) = {}
      /\ lastOp'.op = "removeRecordsAsync" =>
           /\ lastOp'.ok
           /\ lastOp'.result =
                [i \in 1..Len(StoredOf(store, lastOp'.arg)) |->
                   getRecord(store, StoredOf(store, lastOp'.arg)[i])]
           /\ \A i \in 1..Len(lastOp'.arg) : RowsOf(store', lastOp'.arg[i]) = {} ]_vars

\* C33 witness: removeRecordsAsync of a stored and a missing identity has
\* resolved with the one record that was stored.
C33_Witness ==
  /\ lastOp.op = "removeRecordsAsync"
  /\ Len(lastOp.arg) = 2
  /\ Len(lastOp.result) = 1
  /\ lastOp.result[1].relationships # Absent
  /\ \A i \in 1..2 : RowsOf(store, lastOp.arg[i]) = {}

\* C34: whenever an open has completed (on a new store, on a store persisted
\* in an older internal format, after an upgrade or in a later instance), the
\* user-version table and the internal-version table exist and hold exactly
\* one row each.
C34_OneVersionRowEach ==
  IsOpen =>
    /\ store.versionTable.exists
    /\ Len(store.versionTable.rows) = 1
    /\ store.internalTable.exists
    /\ Len(store.internalTable.rows) = 1

\* C34 witness: a store persisted in format 0 was migrated by both steps and
\* has been reopened since; the open has completed.
C34_Witness ==
  /\ IsOpen
  /\ origFormat = 0
  /\ migLog = <<1, 2>>
  /\ restarts = 1
  /\ store.internalTable.rows = << VERSION >>

\* C35: the trigger('dbReady') of a completing open calls every handler that
\* was registered when it started, each once, although each handler calls
\* off on itself during the dispatch; no handler is registered afterwards.
C35_TriggerCallsEveryHandler ==
  [][ (\E p \in Callers : pc[p] = "finish" /\ pc'[p] = "resolved") =>
        /\ trigger(handlers, 1, <<>>).called = handlers
        /\ \A q \in Range(handlers) : pc'[q] = "resolved"
        /\ handlers' = <<>> ]_vars

\* C36: every openDB call that resolves, directly, as a waiter or as the
\* opener, under any interleaving with closeDB and reopenDB, resolves with a
\* connection (never undefined) on which close() has not been called.
C36_ResolvesWithLiveConnection ==
  [][ \A p \in Callers :
        ( /\ pc[p] \in {"idle", "reopening", "waiting", "finish"}
          /\ pc'[p] = "resolved"
          /\ ~(pc[p] = "idle" /\ _db = None) ) =>
        /\ result'[p] # None
        /\ result'[p] \notin closedConns' ]_vars

\* C37: when the open a caller was performing has thrown (openDatabase, the
\* creation pass or a migration step failed) and no open is under way, the
\* cache is Closed: _db is unset and _dbGenerating is false.
C37_FailedOpenReturnsToClosed ==
  ( /\ \E p \in Callers : pc[p] = "rejected"
    /\ \A q \in Callers : pc[q] \notin OpenInProgress ) =>
    /\ _db = None
    /\ ~_dbGenerating

\* The store after setRecordAsync of each record of a list, one call after
\* the other in the order of the list.
RECURSIVE SetEach(_, _)
SetEach(s, records) ==
  IF records = <<>> THEN s
  ELSE SetEach(Transaction(s, _setRecord(Head(records),
                                         existingItemRSEmpty(s, Head(records))), 0).s,
               Tail(records))

\* C38: setRecordsAsync(rs) resolves and leaves the store as setRecordAsync of
\* each element of rs, in the order of the list, leaves it, for every list,
\* lists naming an identity twice included.
C38_BatchAsSequence ==
  [][ lastOp'.op = "setRecordsAsync" =>
        /\ lastOp'.ok
        /\ store' = SetEach(store, lastOp'.arg) ]_vars

\* C39: whenever the migrateDB hook is invoked, the internal migration of the
\* same open is complete: the stored internal version is VERSION and the
\* store is in the layout of VERSION.
C39_HookAfterInternalMigration ==
  \A p \in Callers :
    pc[p] = "migrateDB" =>
      /\ InternalVersionOf(store) = VERSION
      /\ LayoutOf(store) = VERSION
      /\ steps = <<>>

\* C39 witness: the open of a store persisted in format 0 under an older
\* schema version has run both steps and is at the call of the hook.
C39_Witness ==
  /\ \E p \in Callers : pc[p] = "migrateDB"
  /\ origFormat = 0
  /\ orig # {}
  /\ migLog = <<1, 2>>
  /\ restarts = 0
  /\ StoredVersion(store) # schemaVersion

\* C40: a setRecordAsync(r) step changes nothing but the row of r and the
\* edges whose source is r: every other row, every edge with another source,
\* the tables and the two versions are as before.
C40_SetTouchesOnlyItsRecord ==
  [][ lastOp'.op = "setRecordAsync" =>
        LET i == IdentityOf(lastOp'.arg)
        IN  /\ store'.rows \ RowsOf(store', i) = store.rows \ RowsOf(store, i)
            /\ store'.edges \ EdgesOf(store', i) = store.edges \ EdgesOf(store, i)
            /\ [store' EXCEPT !.rows = {}, !.edges = {}]
                 = [store EXCEPT !.rows = {}, !.edges = {}] ]_vars

\* C40 witness: europa was set with its planet while jupiter's row and
\* jupiter's edge to europa were stored; both are still there.
C40_Witness ==
  /\ lastOp.op = "setRecordAsync"
  /\ lastOp.ok
  /\ lastOp.arg = EuropaOfJupiter
  /\ RowsOf(store, Jupiter) # {}
  /\ EdgesOf(store, Jupiter) # {}
  /\ EdgesOf(store, Europa) # {}
  /\ EdgesInto(store, Europa) # {}

============================================================================
